---------------------------- MODULE Spec2Model ----------------------------
(***************************************************************************)
(* Session Manager of the AI-Music clients.                                *)
(*   mobile: src/mobile/src/context/AuthContext.tsx  (AuthProvider)        *)
(*   web:    src/frontend/src/components/Auth.tsx    (AuthProvider,        *)
(*           RegisterForm)                                                 *)
(*   API client used by mobile: src/unnamed/part_001 (ApiServiceClass)     *)
(*                                                                         *)
(* One step of the model is one synchronous run of JavaScript: from the    *)
(* invocation of a handler (or the resumption after an await / a promise   *)
(* callback) to the next await.  React state set in such a run is          *)
(* re-rendered before the next network or storage completion is handled,   *)
(* so every step ends with the provider's render (ProviderValue) and, on   *)
(* the web, with the effects that the render triggers.                     *)
(*                                                                         *)
(* Under Spec the UI invokes one operation at a time, from a state in      *)
(* which no call and no effect fetch is in flight (CanInvoke); the steps   *)
(* of one operation, and of the effect fetch it starts, interleave freely. *)
(* Storage calls are taken to succeed; network calls may fail.             *)
(*                                                                         *)
(* Playback Controller (mobile): src/unnamed/part_001 lines 1-242          *)
(* (AudioProvider).  The device player is a record (queue, active index,   *)
(* state, repeat mode) that changes on command only; any command may be    *)
(* rejected.  It settles a command in a step of its own (PlayerPerforms)   *)
(* and its events wait in a queue until their handlers run, so an          *)
(* operation's continuation and the handlers interleave freely.  A caller  *)
(* that invokes operations back to back uses the functions of the render   *)
(* it holds (held) until it renders again (Rerender).  SpecAudio runs all  *)
(* eleven operations one at a time; SpecSkips and SpecToggle run longer    *)
(* sequences of setPlaylist with the skips and of the toggles.             *)
(*                                                                         *)
(* API client lists and errors, web list fetches: SpecClient.  HomeScreen  *)
(* (src/unnamed/part_000) likes: SpecHome.                                 *)
(*                                                                         *)
(* Overlapping invocations: SpecRace (two playTrack calls) and             *)
(* SpecLogoutRace (mobile login and logout).  HomeScreen                   *)
(* handlePlayComposition with the play event it posts: SpecPlay.  Web      *)
(* MainApp.connectWebSocket (src/frontend/src/App.tsx) and the events of   *)
(* its sockets: SpecSocket.                                                *)
(***************************************************************************)
EXTENDS Integers, Sequences, FiniteSets, Bags, TLC

(* ------------------------------ bounds --------------------------------- *)
\* number of user-invoked operations and restarts in one behaviour
MaxOps == 3
\* number of profile fetches of the web token effect that may be in flight
MaxFetches == 2

(* ------------------------- JavaScript values --------------------------- *)
\* null / absent token (useState<string | null>(null), getItem() === null)
Null == "null"
\* undefined string-valued property of a response body
Undef == "undefined"
\* undefined numeric property (id) of a response body
UndefId == -1

\* tokens the login / register endpoints hand out
Tokens == {"t1", "t2"}

\* JavaScript truthiness of a string-or-null/undefined value
Truthy(s) == s # Null /\ s # Undef /\ s # ""
\* JavaScript truthiness of a number-or-undefined value
TruthyNum(n) == n # UndefId /\ n # 0
\* a || b on strings
OrElse(a, b) == IF Truthy(a) THEN a ELSE b
\* a || b on numbers
OrElseNum(a, b) == IF TruthyNum(a) THEN a ELSE b

(* ------------------------------ server --------------------------------- *)
\* the account a token belongs to: what the login / register response
\* carries next to the token ({ token, user_id, username })
Account(tok) ==
    IF tok = "t1" THEN [user_id |-> 1, username |-> "alice"]
                  ELSE [user_id |-> 2, username |-> "bob"]

\* body of GET /auth/api/profile/ for a token.  The clients read the body
\* as the profile object (bio, location, ...; interface User.profile) and
\* also probe it for id / username; "withUser" bodies carry the account's
\* id and username, "bare" bodies carry the profile fields only.
ProfileShapes == {"withUser", "bare"}
ProfileBody(shape, tok) ==
    IF shape = "withUser"
    THEN [id |-> Account(tok).user_id, username |-> Account(tok).username,
          payload |-> "pA"]
    ELSE [id |-> UndefId, username |-> Undef, payload |-> "pA"]

\* bodies PUT /auth/api/profile/ may answer with
UpdatedPayloads == {"pA", "pB"}

\* failed requests as axios reports them: a response with an error status
\* and a body ("response"), no response at all ("request": error.request
\* is set), or neither ("other").  Each set lists the parts of the error
\* that the handler catching it reads.
ErrStrings == {Undef, "", "bad"}
\* read by ApiServiceClass.handleError
ApiErrors ==
    [kind : {"response"}, detail : ErrStrings, message : ErrStrings,
     error : ErrStrings]
    \cup
    [kind : {"request", "other"}, detail : {Undef}, message : {Undef, "boom"},
     error : {Undef}]
\* read by the web login: error.response?.data?.non_field_errors?.[0]
WebLoginErrors ==
    [kind : {"response"}, non_field : ErrStrings]
    \cup [kind : {"request", "other"}, non_field : {Undef}]
\* read by the web register: data.username / email / password [0]
WebRegisterErrors ==
    [kind : {"response"}, f_username : {Undef, "taken"},
     f_email : {Undef, "invalid"}, f_password : {Undef, "", "weak"}]
    \cup [kind : {"request", "other"}, f_username : {Undef},
          f_email : {Undef}, f_password : {Undef}]
\* read by the web updateProfile: error.response?.data?.detail
WebUpdateErrors ==
    [kind : {"response"}, detail : ErrStrings]
    \cup [kind : {"request", "other"}, detail : {Undef}]

\* variant: the message member is read before detail
handleError_MessageFirst(e) ==
    IF e.kind = "response"
    THEN OrElse(e.message, OrElse(e.detail, OrElse(e.error, "An error occurred")))
    ELSE IF e.kind = "request"
    THEN "Network error - please check your connection"
    ELSE OrElse(e.message, "An unexpected error occurred")

\* ApiServiceClass.handleError: the message of the Error it returns
handleError(e) ==
    IF e.kind = "response"
    THEN OrElse(e.detail, OrElse(e.message, OrElse(e.error, "An error occurred")))
    ELSE IF e.kind = "request"
    THEN "Network error - please check your connection"
    ELSE OrElse(e.message, "An unexpected error occurred")

(* ------------------------------- state --------------------------------- *)
VARIABLES
    platform,       \* "mobile" | "web": which AuthProvider this run is
    profileShape,   \* shape of the server's profile bodies
    user,           \* useState<User | null>
    token,          \* useState<string | null>
    stored,         \* AsyncStorage / localStorage item 'auth_token'
    value,          \* the context value the provider last rendered
    calls,          \* position and locals of each asynchronous operation
    effectFetches,  \* web: profile fetches started by the token effect
    logoutPost,     \* web: the fire-and-forget POST of logout
    result,         \* outcome of the operation that completed last
    prev,           \* session as it was when the app was last restarted
    nops            \* operations invoked so far

sessionVars == <<platform, profileShape, user, token, stored, value, calls,
                 effectFetches, logoutPost, result, prev, nops>>

(* ---------------- state of the Playback Controller (mobile) ------------ *)
\* AudioProvider of src/unnamed/part_001 and the device player it drives
VARIABLES
    currentTrack,   \* useState<Track | null>
    isPlaying,      \* useState(false)
    playlist,       \* useState<Track[]>([])
    shuffle,        \* useState(false)
    repeatMode,     \* useState<RepeatMode>(RepeatMode.Off)
    held,           \* shuffle / repeatMode of the render whose functions
                    \* the caller holds
    player,         \* the device player: queue, active index, state, repeat
    events,         \* player events emitted and not yet handled
    lookups,        \* TrackPlayer.getTrack calls of the track-changed handler
    acalls,         \* controller operations in flight
    aresult,        \* the controller operation that completed last
    lastState,      \* state of the last PlaybackState event handled
    hist,           \* list of the last successful setPlaylist and the
                    \* successful skips since
    overlap,        \* whether operations may be invoked while one runs
    aops            \* controller operations the caller may still invoke

audioVars == <<currentTrack, isPlaying, playlist, shuffle, repeatMode, held,
               player, events, lookups, acalls, aresult, lastState, hist,
               overlap, aops>>

(* ------------- state of the API client and of its consumers ------------ *)
VARIABLES
    api,            \* the API client call that settled last
    compositions,   \* HomeScreen: useState<Composition[]>([])
    like,           \* HomeScreen: handleLikeComposition in flight / settled
    loading,        \* HomeScreen: useState(true), loadHomeData in flight
    webList         \* web: list state the last fetch stored

clientVars == <<api, compositions, like, loading, webList>>

(* ------------------ state of the screens around them ------------------- *)
VARIABLES
    playCall,       \* HomeScreen: handlePlayComposition in flight / settled
    recorded,       \* server: play events recorded, oldest first
    webSocket,      \* web MainApp: useState<WebSocket | null>(null)
    sockets,        \* the WebSocket objects created so far and their state
    reconnect       \* the last connectWebSocket, when invoked with a socket open

socketVars == <<webSocket, sockets, reconnect>>

screenVars == <<playCall, recorded, socketVars>>

\* the variables the Session Manager neither reads nor writes
otherVars == <<audioVars, clientVars, screenVars>>

vars == <<sessionVars, audioVars, clientVars, screenVars>>

(* ---------------- Playback Controller: values and player --------------- *)
MaxAudioOps == 2
MaxSkipOps == 4
MaxToggleOps == 3

Tracks == {"a", "b", "c"}

\* the track lists handed to setPlaylist
TrackLists == {<<>>, <<"b", "a">>, <<"a", "b", "c">>}

\* RepeatMode.Off / Track / Queue
RepeatModes == {"off", "track", "queue"}

\* the render a caller holds its controller functions from
Render(sh, rm) == [shuffle |-> sh, repeatMode |-> rm]

\* state of the device player; index is the position of the active track in
\* the queue counted from 1, 0 when there is none (the player counts from 0,
\* getTrack below uses the same numbering as the events)
PlayerIdle == [queue |-> <<>>, index |-> 0, state |-> "none", repeat |-> "off",
               position |-> 0]

\* the positions, in seconds, a caller seeks to
Positions == {0, 30}

\* Event.PlaybackState and Event.PlaybackTrackChanged as the handlers see them
StateEvent(st) == [type |-> "state", state |-> st, nextTrack |-> UndefId]
TrackEvent(n) == [type |-> "track", state |-> "none", nextTrack |-> n]

\* commands the controller sends to the player
Cmd(name, arg) == [name |-> name, arg |-> arg]
NoCmd == Cmd("none", <<>>)

\* whether the player carries the command out (it rejects a skip past either
\* end of the queue)
PlayerAccepts(p, cmd) ==
    CASE cmd.name = "skipToNext" -> p.index # 0 /\ p.index < Len(p.queue)
      [] cmd.name = "skipToPrevious" -> p.index > 1
      [] OTHER -> TRUE

\* the player after carrying the command out
PlayerAfter(p, cmd) ==
    CASE cmd.name = "reset" ->
            [p EXCEPT !.queue = <<>>, !.index = 0, !.state = "none",
                      !.position = 0]
      [] cmd.name = "add" ->
            IF p.index = 0 /\ Len(cmd.arg) > 0
            THEN [p EXCEPT !.queue = p.queue \o cmd.arg, !.index = 1,
                           !.state = "ready", !.position = 0]
            ELSE [p EXCEPT !.queue = p.queue \o cmd.arg]
      [] cmd.name = "play" ->
            IF p.index # 0 THEN [p EXCEPT !.state = "playing"] ELSE p
      [] cmd.name = "pause" ->
            IF p.index # 0 THEN [p EXCEPT !.state = "paused"] ELSE p
      [] cmd.name = "stop" -> [p EXCEPT !.state = "stopped", !.position = 0]
      [] cmd.name = "skipToNext" ->
            [p EXCEPT !.index = p.index + 1, !.position = 0]
      [] cmd.name = "skipToPrevious" ->
            [p EXCEPT !.index = p.index - 1, !.position = 0]
      [] cmd.name = "seekTo" ->
            IF p.index # 0 THEN [p EXCEPT !.position = cmd.arg[1]] ELSE p
      [] cmd.name = "setRepeatMode" -> [p EXCEPT !.repeat = cmd.arg[1]]
      [] OTHER -> p

\* the events the player emits for a change from p to q: the active track
\* first, then the state
PlayerEmits(p, q) ==
    (IF q.index # p.index \/ (q.index # 0 /\ q.queue[q.index] # p.queue[p.index])
     THEN <<TrackEvent(IF q.index = 0 THEN UndefId ELSE q.index)>>
     ELSE <<>>)
    \o (IF q.state # p.state THEN <<StateEvent(q.state)>> ELSE <<>>)

\* TrackPlayer.getTrack(n) answered from the queue as it is at that moment
getTrack(p, n) == IF n \in 1..Len(p.queue) THEN p.queue[n] ELSE Null

\* the controller's state and the player, as an operation finds them, and
\* whether every earlier player event has been handled by then
AudioSnap == [currentTrack |-> currentTrack, isPlaying |-> isPlaying,
              playlist |-> playlist, shuffle |-> shuffle,
              repeatMode |-> repeatMode, player |-> player,
              quiet |-> (events = <<>> /\ lookups = <<>>)]
NoAudioSnap == [currentTrack |-> Null, isPlaying |-> FALSE, playlist |-> <<>>,
                shuffle |-> FALSE, repeatMode |-> "off", player |-> PlayerIdle,
                quiet |-> TRUE]

(* a controller operation in flight: its argument, the command it awaits,
   whether the player has settled that command, and the state it was
   invoked in *)
Slots == {1, 2}
IdleACall == [op |-> "none", arg |-> <<>>, cmd |-> NoCmd, settled |-> "none",
              pre |-> NoAudioSnap]
NewACall(op, arg, cmd) ==
    [op |-> op, arg |-> arg, cmd |-> cmd, settled |-> "pending",
     pre |-> AudioSnap]

NoAResult == [op |-> "none", arg |-> <<>>, ok |-> FALSE, threw |-> FALSE,
              pre |-> NoAudioSnap]
\* what the caller has asked for: the list of the last successful
\* setPlaylist and the skips that succeeded since (valid while nothing else
\* has changed the track), and whether stopTrack has completed with no
\* playTrack or setPlaylist invoked since
\* and the track of the playTrack invoked last, with whether a playTrack
\* running since then has failed
NoHist == [valid |-> FALSE, list |-> <<>>, k |-> 0, stopped |-> FALSE,
           intent |-> Null, caught |-> FALSE]

\* the AudioProvider after its first render, the player set up and idle
AudioInit ==
    /\ currentTrack = Null
    /\ isPlaying = FALSE
    /\ playlist = <<>>
    /\ shuffle = FALSE
    /\ repeatMode = "off"
    /\ held = Render(FALSE, "off")
    /\ player = PlayerIdle
    /\ events = <<>>
    /\ lookups = <<>>
    /\ acalls = [s \in Slots |-> IdleACall]
    /\ aresult = NoAResult
    /\ lastState = "none"
    /\ hist = NoHist

(* ------------------- API client: bodies and consumers ------------------ *)
MaxLen == 2
MaxLikeCount == 2

\* items of a list response
Items == {"x", "y"}
Lists == UNION {[1..n -> Items] : n \in 0..MaxLen}

\* a parsed JSON body: an array (items) or an object that may carry a
\* results member
ArrayBody(L) == [isArray |-> TRUE, items |-> L, hasResults |-> FALSE,
                 results |-> <<>>]
EnvelopeBody(L) == [isArray |-> FALSE, items |-> <<>>, hasResults |-> TRUE,
                    results |-> L]
NoBody == [isArray |-> FALSE, items |-> <<>>, hasResults |-> FALSE,
           results |-> <<>>]
ListBodies == {ArrayBody(L) : L \in Lists} \cup {EnvelopeBody(L) : L \in Lists}

\* response.data.results || response.data  (an array, even an empty one, is
\* truthy)
OrResults(body) == IF body.hasResults THEN ArrayBody(body.results) ELSE body

\* the client methods that return a list, and the ones among them that
\* return response.data as it is
ListMethods == {"getAIModels", "getModelRecommendations",
                "getGenerationRequests", "getCompositions", "getGenres",
                "getTracks", "getRecommendations", "getTrendingTracks",
                "searchTracks", "getUserFeed", "getUsers"}
RawMethods == {"getModelRecommendations"}
\* the other methods of the client
ObjectMethods == {"login", "register", "getUserProfile", "updateProfile",
                  "generateComposition", "getGenerationStatus",
                  "likeComposition", "playTrack", "followUser"}
\* variant: no method ignores its error
Swallows_None == {}
\* the methods whose catch ignores the error
Swallows == {"logout"}
Methods == ListMethods \cup ObjectMethods \cup {"logout"}

\* what a list method returns for a 2xx response with this body
Returned(m, body) == IF m \in RawMethods THEN body ELSE OrResults(body)

\* the errors axios rejects with, as handleError reads them; each member of
\* the response body has a text of its own
ErrorResponses ==
    [kind : {"response"}, detail : {Undef, "", "d"}, message : {Undef, "", "m"},
     error : {Undef, "", "e"}]
    \cup
    [kind : {"request"}, detail : {Undef}, message : {"Network Error"},
     error : {Undef}]
    \cup
    [kind : {"other"}, detail : {Undef}, message : {Undef, "boom"},
     error : {Undef}]
NoError == [kind |-> "none", detail |-> Undef, message |-> Undef,
            error |-> Undef]

NoApi == [method |-> "none", outcome |-> "none", body |-> NoBody,
          value |-> NoBody, error |-> NoError, message |-> ""]

\* HomeScreen: the compositions the server lists
Composition(id, n, title) == [id |-> id, like_count |-> n, title |-> title]
CompositionIds == {1, 2, 3}
CompositionLists ==
    {<<>>,
     <<Composition(1, 0, "one")>>,
     <<Composition(2, 1, "two"), Composition(1, 0, "one")>>,
     <<Composition(1, 1, "one"), Composition(2, 1, "two"),
       Composition(3, 0, "three")>>}

\* web: the list state of the App component, with the body it came from
NoWebList == [by |-> "none", body |-> NoBody, value |-> NoBody]

\* HomeScreen: handleLikeComposition (pc, id, outcome, the compositions its
\* state update found)
NoLike == [pc |-> "idle", id |-> 0, outcome |-> "none", pre |-> <<>>]

\* nothing fetched or liked yet; the HomeScreen's mount effect has called
\* loadHomeData
\* handlePlayComposition(composition): where it is, the composition's id
\* and audio_file, the token of the render it closed over, and whether the
\* playTrack it awaited started the player
NoPlayCall == [pc |-> "idle", id |-> 0, audio |-> Null, token |-> Null,
               started |-> FALSE]

\* WebSocket objects are numbered in the order of their creation; 0 is
\* no socket (null)
MaxSockets == 3
SocketIds == 1..MaxSockets
NoSocket == 0
\* readyState, "none" for an object not created yet
ReadyStates == {"none", "connecting", "open", "closing", "closed"}
NoReconnect == [old |-> NoSocket, new |-> NoSocket]

ScreenInit ==
    /\ playCall = NoPlayCall
    /\ recorded = <<>>
    /\ webSocket = NoSocket
    /\ sockets = [ws \in SocketIds |-> "none"]
    /\ reconnect = NoReconnect

ClientInit ==
    /\ api = NoApi
    /\ compositions = <<>>
    /\ like = NoLike
    /\ loading = TRUE
    /\ webList = NoWebList

NoUser == [present |-> FALSE, id |-> UndefId, username |-> Undef,
           top |-> Undef, profile |-> Undef]

Ops == {"login", "register", "logout", "updateProfile", "restore"}

\* token, user and persisted token: the session state
Snap == [token |-> token, user |-> user, stored |-> stored]
NoSnap == [token |-> Null, user |-> NoUser, stored |-> Null]

\* userData of a register call: the two password fields
NoForm == [password |-> Undef, password_confirm |-> Undef]
Passwords == {"pw1", "pw2"}

IdleCall == [pc |-> "idle", pre |-> NoSnap, reqs |-> <<>>, tok |-> Null,
             remote |-> "none", form |-> NoForm]
\* a call that has just been invoked and waits at pc
NewCall(pc, reqs, tok) ==
    [pc |-> pc, pre |-> Snap, reqs |-> reqs, tok |-> tok,
     remote |-> "none", form |-> NoForm]
NoResult == [op |-> "none", outcome |-> "none", err |-> Undef,
             pre |-> NoSnap, reqs |-> <<>>, remote |-> "none",
             form |-> NoForm]
NoPrev == [user |-> NoUser, via |-> "none"]

Req(ep, tok) == [ep |-> ep, tok |-> tok]

\* (variant: isAuthenticated: !!token, the user is not consulted)
IsAuthenticated_TokenOnly(t, u) == Truthy(t)

\* AuthProvider.value: isAuthenticated: !!token && !!user
IsAuthenticated(t, u) == Truthy(t) /\ u.present
ProviderValue(t, u) ==
    [user |-> u, token |-> t, isAuthenticated |-> IsAuthenticated(t, u)]

Quiescent ==
    /\ \A o \in Ops : calls[o].pc = "idle"
    /\ effectFetches = EmptyBag

\* an operation can be invoked from the UI (with overlap, also while
\* another one is still awaiting)
CanInvoke == (overlap \/ Quiescent) /\ nops < MaxOps

Finish(o, outcome, err, remote) ==
    [op |-> o, outcome |-> outcome, err |-> err, pre |-> calls[o].pre,
     reqs |-> calls[o].reqs, remote |-> remote, form |-> calls[o].form]

(* --------------------------- mobile: login ----------------------------- *)
\* login(): const response = await ApiService.login(username, password)
MobileLoginInvoke ==
    /\ platform = "mobile"
    /\ CanInvoke
    /\ calls' = [calls EXCEPT !["login"] =
                    NewCall("awaitLogin", <<Req("login", Null)>>, Null)]
    /\ nops' = nops + 1
    /\ result' = NoResult
    /\ UNCHANGED <<platform, profileShape, user, token, stored, value,
                   effectFetches, logoutPost, prev>>
    /\ UNCHANGED otherVars

\* the login request succeeded: setToken(authToken);
\* await AsyncStorage.setItem('auth_token', authToken)
MobileLoginResponse ==
    /\ platform = "mobile"
    /\ calls["login"].pc = "awaitLogin"
    /\ \E authToken \in Tokens :
        /\ token' = authToken
        /\ calls' = [calls EXCEPT !["login"].pc = "awaitSetItem",
                                  !["login"].tok = authToken]
    /\ value' = ProviderValue(token', user)
    /\ UNCHANGED <<platform, profileShape, user, stored, effectFetches,
                   logoutPost, result, prev, nops>>
    /\ UNCHANGED otherVars

\* (variant: the catch block also drops the session, as the one of
\* loadStoredAuth drops the persisted token)
MobileLoginRejected_DropsSession ==
    /\ platform = "mobile"
    /\ calls["login"].pc = "awaitLogin"
    /\ \E e \in ApiErrors :
        result' = Finish("login", "rejected",
                         OrElse(handleError(e), "Login failed"),
                         IF e.kind = "response" THEN "server" ELSE "network")
    /\ calls' = [calls EXCEPT !["login"] = IdleCall]
    /\ stored' = Null
    /\ UNCHANGED <<platform, profileShape, user, token, value,
                   effectFetches, logoutPost, prev, nops>>
    /\ UNCHANGED otherVars

\* the login request failed: ApiService.login throws handleError(error),
\* login rethrows new Error(error.message || 'Login failed')
MobileLoginRejected ==
    /\ platform = "mobile"
    /\ calls["login"].pc = "awaitLogin"
    /\ \E e \in ApiErrors :
        result' = Finish("login", "rejected",
                         OrElse(handleError(e), "Login failed"),
                         IF e.kind = "response" THEN "server" ELSE "network")
    /\ calls' = [calls EXCEPT !["login"] = IdleCall]
    /\ UNCHANGED <<platform, profileShape, user, token, stored, value,
                   effectFetches, logoutPost, prev, nops>>
    /\ UNCHANGED otherVars

\* setItem resolved: const userProfile = await ApiService.getUserProfile(authToken)
MobileLoginStored ==
    /\ platform = "mobile"
    /\ calls["login"].pc = "awaitSetItem"
    /\ stored' = calls["login"].tok
    /\ calls' = [calls EXCEPT
                    !["login"].pc = "awaitProfile",
                    !["login"].reqs = Append(@, Req("profile", calls["login"].tok))]
    /\ UNCHANGED <<platform, profileShape, user, token, value, effectFetches,
                   logoutPost, result, prev, nops>>
    /\ UNCHANGED otherVars

\* { id: user_id, username, ...userProfile }: the body's own id / username
\* replace the ones of the login response when the body has them
MobileUser(tok, body) ==
    [present |-> TRUE,
     id |-> IF body.id # UndefId THEN body.id ELSE Account(tok).user_id,
     username |-> IF body.username # Undef THEN body.username
                  ELSE Account(tok).username,
     top |-> body.payload,
     profile |-> Undef]

\* the profile fetch succeeded: setUser({ id: user_id, username, ...userProfile })
MobileLoginProfile ==
    /\ platform = "mobile"
    /\ calls["login"].pc = "awaitProfile"
    /\ user' = MobileUser(calls["login"].tok,
                          ProfileBody(profileShape, calls["login"].tok))
    /\ value' = ProviderValue(token, user')
    /\ result' = Finish("login", "resolved", Undef, "ok")
    /\ calls' = [calls EXCEPT !["login"] = IdleCall]
    /\ UNCHANGED <<platform, profileShape, token, stored, effectFetches,
                   logoutPost, prev, nops>>
    /\ UNCHANGED otherVars

\* the profile fetch failed: catch, throw new Error(error.message || 'Login failed')
MobileLoginProfileFailed ==
    /\ platform = "mobile"
    /\ calls["login"].pc = "awaitProfile"
    /\ \E e \in ApiErrors :
        result' = Finish("login", "rejected",
                         OrElse(handleError(e), "Login failed"),
                         IF e.kind = "response" THEN "server" ELSE "network")
    /\ calls' = [calls EXCEPT !["login"] = IdleCall]
    /\ UNCHANGED <<platform, profileShape, user, token, stored, value,
                   effectFetches, logoutPost, prev, nops>>
    /\ UNCHANGED otherVars

(* -------------------------- mobile: register --------------------------- *)
\* register(userData): const response = await ApiService.register(userData)
MobileRegisterInvoke(form) ==
    calls' = [calls EXCEPT !["register"] =
                [NewCall("awaitRegister", <<Req("register", Null)>>, Null)
                    EXCEPT !.form = form]]

\* the registration handler of the mobile LoginScreen (not among the
\* sources): it checks the password confirmation before it calls
\* register(userData)
MobileRegisterSubmit ==
    /\ platform = "mobile"
    /\ CanInvoke
    /\ nops' = nops + 1
    /\ \E pw \in Passwords, confirm \in Passwords :
        LET form == [password |-> pw, password_confirm |-> confirm] IN
        IF pw # confirm
        THEN /\ result' = [op |-> "submit", outcome |-> "invalid",
                           err |-> "Passwords don't match", pre |-> Snap,
                           reqs |-> <<>>, remote |-> "none", form |-> form]
             /\ UNCHANGED calls
        ELSE /\ MobileRegisterInvoke(form)
             /\ result' = NoResult
    /\ UNCHANGED <<platform, profileShape, user, token, stored, value,
                   effectFetches, logoutPost, prev>>
    /\ UNCHANGED otherVars

\* the register request succeeded: setToken(authToken);
\* await AsyncStorage.setItem('auth_token', authToken)
MobileRegisterResponse ==
    /\ platform = "mobile"
    /\ calls["register"].pc = "awaitRegister"
    /\ \E authToken \in Tokens :
        /\ token' = authToken
        /\ calls' = [calls EXCEPT !["register"].pc = "awaitSetItem",
                                  !["register"].tok = authToken]
    /\ value' = ProviderValue(token', user)
    /\ UNCHANGED <<platform, profileShape, user, stored, effectFetches,
                   logoutPost, result, prev, nops>>
    /\ UNCHANGED otherVars

\* the register request failed:
\* throw new Error(error.message || 'Registration failed')
MobileRegisterRejected ==
    /\ platform = "mobile"
    /\ calls["register"].pc = "awaitRegister"
    /\ \E e \in ApiErrors :
        result' = Finish("register", "rejected",
                         OrElse(handleError(e), "Registration failed"),
                         IF e.kind = "response" THEN "server" ELSE "network")
    /\ calls' = [calls EXCEPT !["register"] = IdleCall]
    /\ UNCHANGED <<platform, profileShape, user, token, stored, value,
                   effectFetches, logoutPost, prev, nops>>
    /\ UNCHANGED otherVars

\* setItem resolved: const userProfile = await ApiService.getUserProfile(authToken)
MobileRegisterStored ==
    /\ platform = "mobile"
    /\ calls["register"].pc = "awaitSetItem"
    /\ stored' = calls["register"].tok
    /\ calls' = [calls EXCEPT
                    !["register"].pc = "awaitProfile",
                    !["register"].reqs =
                        Append(@, Req("profile", calls["register"].tok))]
    /\ UNCHANGED <<platform, profileShape, user, token, value, effectFetches,
                   logoutPost, result, prev, nops>>
    /\ UNCHANGED otherVars

\* the profile fetch succeeded: setUser({ id: user_id, username, ...userProfile })
MobileRegisterProfile ==
    /\ platform = "mobile"
    /\ calls["register"].pc = "awaitProfile"
    /\ user' = MobileUser(calls["register"].tok,
                          ProfileBody(profileShape, calls["register"].tok))
    /\ value' = ProviderValue(token, user')
    /\ result' = Finish("register", "resolved", Undef, "ok")
    /\ calls' = [calls EXCEPT !["register"] = IdleCall]
    /\ UNCHANGED <<platform, profileShape, token, stored, effectFetches,
                   logoutPost, prev, nops>>
    /\ UNCHANGED otherVars

\* the profile fetch failed:
\* throw new Error(error.message || 'Registration failed')
MobileRegisterProfileFailed ==
    /\ platform = "mobile"
    /\ calls["register"].pc = "awaitProfile"
    /\ \E e \in ApiErrors :
        result' = Finish("register", "rejected",
                         OrElse(handleError(e), "Registration failed"),
                         IF e.kind = "response" THEN "server" ELSE "network")
    /\ calls' = [calls EXCEPT !["register"] = IdleCall]
    /\ UNCHANGED <<platform, profileShape, user, token, stored, value,
                   effectFetches, logoutPost, prev, nops>>
    /\ UNCHANGED otherVars

(* --------------------------- mobile: logout ---------------------------- *)
\* (variant: the state is cleared in the try block, after the remote call,
\* so a failed remote call skips it)
MobileLogoutClear_OnSuccessOnly(remote) ==
    /\ user' = IF remote \in {"ok", "none"} THEN NoUser ELSE user
    /\ token' = IF remote \in {"ok", "none"} THEN Null ELSE token
    /\ value' = ProviderValue(token', user')
    /\ calls' = [calls EXCEPT !["logout"].pc = "awaitRemoveItem",
                              !["logout"].remote = remote]

\* finally { setUser(null); setToken(null);
\*           await AsyncStorage.removeItem('auth_token') }
\* up to the await; remote is how the invalidation request ended
MobileLogoutClear(remote) ==
    /\ user' = NoUser
    /\ token' = Null
    /\ value' = ProviderValue(token', user')
    /\ calls' = [calls EXCEPT !["logout"].pc = "awaitRemoveItem",
                              !["logout"].remote = remote]

\* logout(): if (token) await ApiService.logout(token); without a token
\* the finally block runs at once
MobileLogoutInvoke ==
    /\ platform = "mobile"
    /\ CanInvoke
    /\ nops' = nops + 1
    /\ IF Truthy(token)
       THEN /\ calls' = [calls EXCEPT !["logout"] =
                            NewCall("awaitLogout", <<Req("logout", token)>>,
                                    token)]
            /\ UNCHANGED <<user, token, value>>
       ELSE /\ user' = NoUser
            /\ token' = Null
            /\ value' = ProviderValue(token', user')
            /\ calls' = [calls EXCEPT !["logout"] =
                            NewCall("awaitRemoveItem", <<>>, Null)]
    /\ result' = NoResult
    /\ UNCHANGED <<platform, profileShape, stored, effectFetches, logoutPost,
                   prev>>
    /\ UNCHANGED otherVars

\* ApiService.logout settled: it catches every error of the request
\* itself, so logout's await never throws; the finally block runs
MobileLogoutSettled ==
    /\ platform = "mobile"
    /\ calls["logout"].pc = "awaitLogout"
    /\ \E remote \in {"ok", "server", "network"} : MobileLogoutClear(remote)
    /\ UNCHANGED <<platform, profileShape, stored, effectFetches, logoutPost,
                   result, prev, nops>>
    /\ UNCHANGED otherVars

\* removeItem resolved: logout resolves
MobileLogoutRemoved ==
    /\ platform = "mobile"
    /\ calls["logout"].pc = "awaitRemoveItem"
    /\ stored' = Null
    /\ result' = Finish("logout", "resolved", Undef, calls["logout"].remote)
    /\ calls' = [calls EXCEPT !["logout"] = IdleCall]
    /\ UNCHANGED <<platform, profileShape, user, token, value, effectFetches,
                   logoutPost, prev, nops>>
    /\ UNCHANGED otherVars

(* ------------------------ mobile: updateProfile ------------------------ *)
\* setUser(prev => prev ? { ...prev, profile: updated } : null)
WithProfile(u, payload) ==
    IF u.present THEN [u EXCEPT !.profile = payload] ELSE NoUser

\* (variant: the token check is missing)
MobileUpdateProfileInvoke_NoGuard ==
    /\ platform = "mobile"
    /\ CanInvoke
    /\ nops' = nops + 1
    /\ calls' = [calls EXCEPT !["updateProfile"] =
                    NewCall("awaitUpdate",
                            <<Req("updateProfile", token)>>, token)]
    /\ result' = NoResult
    /\ UNCHANGED <<platform, profileShape, user, token, stored, value,
                   effectFetches, logoutPost, prev>>
    /\ UNCHANGED otherVars

\* updateProfile(): if (!token) throw new Error('Not authenticated');
\* otherwise await ApiService.updateProfile(profileData, token)
MobileUpdateProfileInvoke ==
    /\ platform = "mobile"
    /\ CanInvoke
    /\ nops' = nops + 1
    /\ IF ~Truthy(token)
       THEN /\ result' = [op |-> "updateProfile", outcome |-> "rejected",
                          err |-> "Not authenticated", pre |-> Snap,
                          reqs |-> <<>>, remote |-> "none", form |-> NoForm]
            /\ UNCHANGED calls
       ELSE /\ calls' = [calls EXCEPT !["updateProfile"] =
                            NewCall("awaitUpdate",
                                    <<Req("updateProfile", token)>>, token)]
            /\ result' = NoResult
    /\ UNCHANGED <<platform, profileShape, user, token, stored, value,
                   effectFetches, logoutPost, prev>>
    /\ UNCHANGED otherVars

\* the update request succeeded
MobileUpdateProfileResponse ==
    /\ platform = "mobile"
    /\ calls["updateProfile"].pc = "awaitUpdate"
    /\ \E payload \in UpdatedPayloads : user' = WithProfile(user, payload)
    /\ value' = ProviderValue(token, user')
    /\ result' = Finish("updateProfile", "resolved", Undef, "ok")
    /\ calls' = [calls EXCEPT !["updateProfile"] = IdleCall]
    /\ UNCHANGED <<platform, profileShape, token, stored, effectFetches,
                   logoutPost, prev, nops>>
    /\ UNCHANGED otherVars

\* the update request failed:
\* throw new Error(error.message || 'Profile update failed')
MobileUpdateProfileRejected ==
    /\ platform = "mobile"
    /\ calls["updateProfile"].pc = "awaitUpdate"
    /\ \E e \in ApiErrors :
        result' = Finish("updateProfile", "rejected",
                         OrElse(handleError(e), "Profile update failed"),
                         IF e.kind = "response" THEN "server" ELSE "network")
    /\ calls' = [calls EXCEPT !["updateProfile"] = IdleCall]
    /\ UNCHANGED <<platform, profileShape, user, token, stored, value,
                   effectFetches, logoutPost, prev, nops>>
    /\ UNCHANGED otherVars

(* ----------------------- mobile: loadStoredAuth ------------------------ *)
\* getItem resolved: without a token loadStoredAuth ends; with one,
\* setToken(storedToken); await ApiService.getUserProfile(storedToken)
MobileRestoreRead ==
    /\ platform = "mobile"
    /\ calls["restore"].pc = "awaitGetItem"
    /\ IF Truthy(stored)
       THEN /\ token' = stored
            /\ value' = ProviderValue(token', user)
            /\ calls' = [calls EXCEPT
                            !["restore"].pc = "awaitProfile",
                            !["restore"].tok = stored,
                            !["restore"].reqs = <<Req("profile", stored)>>]
            /\ UNCHANGED result
       ELSE /\ result' = Finish("restore", "empty", Undef, "none")
            /\ calls' = [calls EXCEPT !["restore"] = IdleCall]
            /\ UNCHANGED <<token, value>>
    /\ UNCHANGED <<platform, profileShape, user, stored, effectFetches,
                   logoutPost, prev, nops>>
    /\ UNCHANGED otherVars

\* setUser(userProfile): the body as it came
RestoredUserMobile(body) ==
    [present |-> TRUE, id |-> body.id, username |-> body.username,
     top |-> body.payload, profile |-> Undef]

\* the profile fetch succeeded: setUser(userProfile)
MobileRestoreProfile ==
    /\ platform = "mobile"
    /\ calls["restore"].pc = "awaitProfile"
    /\ user' = RestoredUserMobile(ProfileBody(profileShape, calls["restore"].tok))
    /\ value' = ProviderValue(token, user')
    /\ result' = Finish("restore", "resolved", Undef, "ok")
    /\ calls' = [calls EXCEPT !["restore"] = IdleCall]
    /\ UNCHANGED <<platform, profileShape, token, stored, effectFetches,
                   logoutPost, prev, nops>>
    /\ UNCHANGED otherVars

\* the profile fetch failed: catch { await AsyncStorage.removeItem('auth_token') }
MobileRestoreProfileFailed ==
    /\ platform = "mobile"
    /\ calls["restore"].pc = "awaitProfile"
    /\ \E remote \in {"server", "network"} :
        calls' = [calls EXCEPT !["restore"].pc = "awaitRemoveItem",
                               !["restore"].remote = remote]
    /\ UNCHANGED <<platform, profileShape, user, token, stored, value,
                   effectFetches, logoutPost, result, prev, nops>>
    /\ UNCHANGED otherVars

\* removeItem resolved: loadStoredAuth ends
MobileRestoreRemoved ==
    /\ platform = "mobile"
    /\ calls["restore"].pc = "awaitRemoveItem"
    /\ stored' = Null
    /\ result' = Finish("restore", "cleared", Undef, calls["restore"].remote)
    /\ calls' = [calls EXCEPT !["restore"] = IdleCall]
    /\ UNCHANGED <<platform, profileShape, user, token, value, effectFetches,
                   logoutPost, prev, nops>>
    /\ UNCHANGED otherVars

(* ------------------------- web: token effect --------------------------- *)
\* useEffect(..., [token]) "Load user on token change", run by the render
\* that follows a change of token from old to new while the user is u:
\* if (token && !user) axios.get(profile, Token token)
TokenEffect(old, new, u, fetches) ==
    IF new # old /\ Truthy(new) /\ ~u.present
    THEN fetches (+) SetToBag({new})
    ELSE fetches

\* .then(response => setUser({ id: response.data.id || 0,
\*        username: response.data.username || '', ..., profile: response.data }))
RestoredUserWeb(body) ==
    [present |-> TRUE, id |-> OrElseNum(body.id, 0),
     username |-> OrElse(body.username, ""),
     top |-> Undef, profile |-> body.payload]

\* the event an effect fetch for tok completes as: the session restore when
\* it is the fetch the mount started, else a plain effect completion
EffectDone(tok, outcome, remote) ==
    IF calls["restore"].pc = "awaitProfile" /\ calls["restore"].tok = tok
    THEN Finish("restore", outcome, Undef, remote)
    ELSE [NoResult EXCEPT !.op = "effect", !.outcome = outcome,
                          !.remote = remote, !.pre = Snap]
EffectCalls(tok) ==
    IF calls["restore"].pc = "awaitProfile" /\ calls["restore"].tok = tok
    THEN [calls EXCEPT !["restore"] = IdleCall]
    ELSE calls

\* an effect fetch succeeded
WebEffectProfile ==
    /\ platform = "web"
    /\ \E tok \in BagToSet(effectFetches) :
        /\ user' = RestoredUserWeb(ProfileBody(profileShape, tok))
        /\ effectFetches' = effectFetches (-) SetToBag({tok})
        /\ result' = EffectDone(tok, "resolved", "ok")
        /\ calls' = EffectCalls(tok)
    /\ value' = ProviderValue(token, user')
    /\ UNCHANGED <<platform, profileShape, token, stored, logoutPost, prev,
                   nops>>
    /\ UNCHANGED otherVars

\* logout() of the render whose token is tok, given the fetches in flight:
\* if (token) axios.post(logout).catch(() => {}); setUser(null);
\* setToken(null); localStorage.removeItem('auth_token'); then the render
\* and its token effect
WebLogoutBody(tok, fetches) ==
    /\ logoutPost' = IF Truthy(tok) THEN "pending" ELSE logoutPost
    /\ user' = NoUser
    /\ token' = Null
    /\ stored' = Null
    /\ value' = ProviderValue(token', user')
    /\ effectFetches' = TokenEffect(token, token', user', fetches)

\* an effect fetch failed: .catch(() => { logout() }), the logout of the
\* render that started the fetch
WebEffectProfileFailed ==
    /\ platform = "web"
    /\ \E tok \in BagToSet(effectFetches) :
        /\ WebLogoutBody(tok, effectFetches (-) SetToBag({tok}))
        /\ \E remote \in {"server", "network"} :
            result' = EffectDone(tok, "cleared", remote)
        /\ calls' = EffectCalls(tok)
    /\ UNCHANGED <<platform, profileShape, prev, nops>>
    /\ UNCHANGED otherVars

(* ----------------------------- web: logout ----------------------------- *)
\* logout() invoked from the UI
WebLogout ==
    /\ platform = "web"
    /\ CanInvoke
    /\ nops' = nops + 1
    /\ WebLogoutBody(token, effectFetches)
    /\ result' = [NoResult EXCEPT
                    !.op = "logout", !.outcome = "resolved", !.pre = Snap,
                    !.reqs = IF Truthy(token) THEN <<Req("logout", token)>>
                             ELSE <<>>]
    /\ UNCHANGED <<platform, profileShape, calls, prev>>
    /\ UNCHANGED otherVars

\* the POST of logout settled; .catch ignores a failure
WebLogoutPostSettled ==
    /\ platform = "web"
    /\ logoutPost = "pending"
    /\ logoutPost' \in {"ok", "server", "network"}
    /\ UNCHANGED <<platform, profileShape, user, token, stored, value, calls,
                   effectFetches, result, prev, nops>>
    /\ UNCHANGED otherVars

(* ----------------------------- web: login ------------------------------ *)
\* login(): const response = await axios.post(login, { username, password })
WebLoginInvoke ==
    /\ platform = "web"
    /\ CanInvoke
    /\ nops' = nops + 1
    /\ calls' = [calls EXCEPT !["login"] =
                    NewCall("awaitLogin", <<Req("login", Null)>>, Null)]
    /\ result' = NoResult
    /\ UNCHANGED <<platform, profileShape, user, token, stored, value,
                   effectFetches, logoutPost, prev>>
    /\ UNCHANGED otherVars

\* the login request succeeded: setToken(authToken);
\* localStorage.setItem('auth_token', authToken);
\* await axios.get(profile, Token authToken); the render runs the effect
WebLoginResponse ==
    /\ platform = "web"
    /\ calls["login"].pc = "awaitLogin"
    /\ BagCardinality(effectFetches) < MaxFetches
    /\ \E authToken \in Tokens :
        /\ token' = authToken
        /\ stored' = authToken
        /\ calls' = [calls EXCEPT
                        !["login"].pc = "awaitProfile",
                        !["login"].tok = authToken,
                        !["login"].reqs = Append(@, Req("profile", authToken))]
    /\ value' = ProviderValue(token', user)
    /\ effectFetches' = TokenEffect(token, token', user, effectFetches)
    /\ UNCHANGED <<platform, profileShape, user, logoutPost, result, prev,
                   nops>>
    /\ UNCHANGED otherVars

\* the login request failed:
\* throw new Error(error.response?.data?.non_field_errors?.[0] || 'Login failed')
WebLoginRejected ==
    /\ platform = "web"
    /\ calls["login"].pc = "awaitLogin"
    /\ \E e \in WebLoginErrors :
        result' = Finish("login", "rejected", OrElse(e.non_field, "Login failed"),
                         IF e.kind = "response" THEN "server" ELSE "network")
    /\ calls' = [calls EXCEPT !["login"] = IdleCall]
    /\ UNCHANGED <<platform, profileShape, user, token, stored, value,
                   effectFetches, logoutPost, prev, nops>>
    /\ UNCHANGED otherVars

\* setUser({ id: user_id, username, email, profile: profileResponse.data })
WebUser(tok, body) ==
    [present |-> TRUE, id |-> Account(tok).user_id,
     username |-> Account(tok).username, top |-> Undef,
     profile |-> body.payload]

\* login's own profile fetch succeeded
WebLoginProfile ==
    /\ platform = "web"
    /\ calls["login"].pc = "awaitProfile"
    /\ user' = WebUser(calls["login"].tok,
                       ProfileBody(profileShape, calls["login"].tok))
    /\ value' = ProviderValue(token, user')
    /\ result' = Finish("login", "resolved", Undef, "ok")
    /\ calls' = [calls EXCEPT !["login"] = IdleCall]
    /\ UNCHANGED <<platform, profileShape, token, stored, effectFetches,
                   logoutPost, prev, nops>>
    /\ UNCHANGED otherVars

\* login's own profile fetch failed: the same catch
WebLoginProfileFailed ==
    /\ platform = "web"
    /\ calls["login"].pc = "awaitProfile"
    /\ \E e \in WebLoginErrors :
        result' = Finish("login", "rejected", OrElse(e.non_field, "Login failed"),
                         IF e.kind = "response" THEN "server" ELSE "network")
    /\ calls' = [calls EXCEPT !["login"] = IdleCall]
    /\ UNCHANGED <<platform, profileShape, user, token, stored, value,
                   effectFetches, logoutPost, prev, nops>>
    /\ UNCHANGED otherVars

(* ---------------------------- web: register ---------------------------- *)
\* register(userData): const response = await axios.post(register, userData)
WebRegisterInvoke(form) ==
    calls' = [calls EXCEPT !["register"] =
                [NewCall("awaitRegister", <<Req("register", Null)>>, Null)
                    EXCEPT !.form = form]]

\* (variant: the form calls register without comparing the passwords)
handleSubmit_NoCheck ==
    /\ platform = "web"
    /\ CanInvoke
    /\ nops' = nops + 1
    /\ \E pw \in Passwords, confirm \in Passwords :
        WebRegisterInvoke([password |-> pw, password_confirm |-> confirm])
    /\ result' = NoResult
    /\ UNCHANGED <<platform, profileShape, user, token, stored, value,
                   effectFetches, logoutPost, prev>>
    /\ UNCHANGED otherVars

\* RegisterForm.handleSubmit: if (formData.password !==
\* formData.password_confirm) { setError("Passwords don't match"); return }
\* else await register(formData)
handleSubmit ==
    /\ platform = "web"
    /\ CanInvoke
    /\ nops' = nops + 1
    /\ \E pw \in Passwords, confirm \in Passwords :
        LET form == [password |-> pw, password_confirm |-> confirm] IN
        IF pw # confirm
        THEN /\ result' = [op |-> "submit", outcome |-> "invalid",
                           err |-> "Passwords don't match", pre |-> Snap,
                           reqs |-> <<>>, remote |-> "none", form |-> form]
             /\ UNCHANGED calls
        ELSE /\ WebRegisterInvoke(form)
             /\ result' = NoResult
    /\ UNCHANGED <<platform, profileShape, user, token, stored, value,
                   effectFetches, logoutPost, prev>>
    /\ UNCHANGED otherVars

\* the register request succeeded: setToken(authToken);
\* localStorage.setItem('auth_token', authToken);
\* await axios.get(profile, Token authToken); the render runs the effect
WebRegisterResponse ==
    /\ platform = "web"
    /\ calls["register"].pc = "awaitRegister"
    /\ BagCardinality(effectFetches) < MaxFetches
    /\ \E authToken \in Tokens :
        /\ token' = authToken
        /\ stored' = authToken
        /\ calls' = [calls EXCEPT
                        !["register"].pc = "awaitProfile",
                        !["register"].tok = authToken,
                        !["register"].reqs = Append(@, Req("profile", authToken))]
    /\ value' = ProviderValue(token', user)
    /\ effectFetches' = TokenEffect(token, token', user, effectFetches)
    /\ UNCHANGED <<platform, profileShape, user, logoutPost, result, prev,
                   nops>>
    /\ UNCHANGED otherVars

\* errorMsg = data?.username?.[0] || data?.email?.[0] ||
\*            data?.password?.[0] || 'Registration failed'
WebRegisterMessage(e) ==
    OrElse(e.f_username, OrElse(e.f_email,
           OrElse(e.f_password, "Registration failed")))

\* the register request failed: throw new Error(errorMsg)
WebRegisterRejected ==
    /\ platform = "web"
    /\ calls["register"].pc = "awaitRegister"
    /\ \E e \in WebRegisterErrors :
        result' = Finish("register", "rejected", WebRegisterMessage(e),
                         IF e.kind = "response" THEN "server" ELSE "network")
    /\ calls' = [calls EXCEPT !["register"] = IdleCall]
    /\ UNCHANGED <<platform, profileShape, user, token, stored, value,
                   effectFetches, logoutPost, prev, nops>>
    /\ UNCHANGED otherVars

\* register's own profile fetch succeeded:
\* setUser({ id: user_id, username, email, profile: profileResponse.data })
WebRegisterProfile ==
    /\ platform = "web"
    /\ calls["register"].pc = "awaitProfile"
    /\ user' = WebUser(calls["register"].tok,
                       ProfileBody(profileShape, calls["register"].tok))
    /\ value' = ProviderValue(token, user')
    /\ result' = Finish("register", "resolved", Undef, "ok")
    /\ calls' = [calls EXCEPT !["register"] = IdleCall]
    /\ UNCHANGED <<platform, profileShape, token, stored, effectFetches,
                   logoutPost, prev, nops>>
    /\ UNCHANGED otherVars

\* register's own profile fetch failed: the same catch
WebRegisterProfileFailed ==
    /\ platform = "web"
    /\ calls["register"].pc = "awaitProfile"
    /\ \E e \in WebRegisterErrors :
        result' = Finish("register", "rejected", WebRegisterMessage(e),
                         IF e.kind = "response" THEN "server" ELSE "network")
    /\ calls' = [calls EXCEPT !["register"] = IdleCall]
    /\ UNCHANGED <<platform, profileShape, user, token, stored, value,
                   effectFetches, logoutPost, prev, nops>>
    /\ UNCHANGED otherVars

(* -------------------------- web: updateProfile ------------------------- *)
\* updateProfile(): if (!token) throw new Error('Not authenticated');
\* otherwise await axios.put(profile, profileData, Token token)
WebUpdateProfileInvoke ==
    /\ platform = "web"
    /\ CanInvoke
    /\ nops' = nops + 1
    /\ IF ~Truthy(token)
       THEN /\ result' = [op |-> "updateProfile", outcome |-> "rejected",
                          err |-> "Not authenticated", pre |-> Snap,
                          reqs |-> <<>>, remote |-> "none", form |-> NoForm]
            /\ UNCHANGED calls
       ELSE /\ calls' = [calls EXCEPT !["updateProfile"] =
                            NewCall("awaitUpdate",
                                    <<Req("updateProfile", token)>>, token)]
            /\ result' = NoResult
    /\ UNCHANGED <<platform, profileShape, user, token, stored, value,
                   effectFetches, logoutPost, prev>>
    /\ UNCHANGED otherVars

\* the update request succeeded:
\* setUser(prev => prev ? { ...prev, profile: response.data } : null)
WebUpdateProfileResponse ==
    /\ platform = "web"
    /\ calls["updateProfile"].pc = "awaitUpdate"
    /\ \E payload \in UpdatedPayloads : user' = WithProfile(user, payload)
    /\ value' = ProviderValue(token, user')
    /\ result' = Finish("updateProfile", "resolved", Undef, "ok")
    /\ calls' = [calls EXCEPT !["updateProfile"] = IdleCall]
    /\ UNCHANGED <<platform, profileShape, token, stored, effectFetches,
                   logoutPost, prev, nops>>
    /\ UNCHANGED otherVars

\* the update request failed:
\* throw new Error(error.response?.data?.detail || 'Profile update failed')
WebUpdateProfileRejected ==
    /\ platform = "web"
    /\ calls["updateProfile"].pc = "awaitUpdate"
    /\ \E e \in WebUpdateErrors :
        result' = Finish("updateProfile", "rejected",
                         OrElse(e.detail, "Profile update failed"),
                         IF e.kind = "response" THEN "server" ELSE "network")
    /\ calls' = [calls EXCEPT !["updateProfile"] = IdleCall]
    /\ UNCHANGED <<platform, profileShape, user, token, stored, value,
                   effectFetches, logoutPost, prev, nops>>
    /\ UNCHANGED otherVars

(* ------------------------- mount and restart --------------------------- *)
\* the provider's state right after it mounts on platform pl with the
\* persisted token st.  mobile: useState(null) twice and the mount effect
\* has called loadStoredAuth, which waits for getItem.  web:
\* useState(localStorage.getItem('auth_token')) and the first render's
\* token effect has run.
MountToken(pl, st) == IF pl = "web" THEN st ELSE Null
MountFetches(pl, st) ==
    IF pl = "web" THEN TokenEffect(Null, st, NoUser, EmptyBag) ELSE EmptyBag
MountCalls(pl, st) ==
    [o \in Ops |->
        IF o # "restore" THEN IdleCall
        ELSE IF pl = "mobile"
        THEN [IdleCall EXCEPT !.pc = "awaitGetItem",
                              !.pre = [NoSnap EXCEPT !.stored = st]]
        ELSE IF Truthy(st)
        THEN [IdleCall EXCEPT !.pc = "awaitProfile", !.tok = st,
                              !.reqs = <<Req("profile", st)>>,
                              !.pre = [NoSnap EXCEPT !.stored = st,
                                                     !.token = st]]
        ELSE IdleCall]
MountResult(pl, st) ==
    IF pl = "web" /\ ~Truthy(st)
    THEN [NoResult EXCEPT !.op = "restore", !.outcome = "empty"]
    ELSE NoResult

InitApp(o, n) ==
    /\ platform \in {"mobile", "web"}
    /\ profileShape \in ProfileShapes
    /\ stored \in Tokens \cup {Null}
    /\ user = NoUser
    /\ token = MountToken(platform, stored)
    /\ value = ProviderValue(token, user)
    /\ calls = MountCalls(platform, stored)
    /\ effectFetches = MountFetches(platform, stored)
    /\ logoutPost = "none"
    /\ result = MountResult(platform, stored)
    /\ prev = NoPrev
    /\ nops = 0
    /\ AudioInit
    /\ overlap = o
    /\ aops = n
    /\ ClientInit
    /\ ScreenInit

Init == InitApp(FALSE, 0)

\* the app is closed and started again: only the persisted token survives
Restart ==
    /\ CanInvoke
    /\ nops' = nops + 1
    /\ prev' = [user |-> user,
                via |-> IF result.outcome = "resolved" THEN result.op
                        ELSE "none"]
    /\ user' = NoUser
    /\ token' = MountToken(platform, stored)
    /\ value' = ProviderValue(token', user')
    /\ calls' = MountCalls(platform, stored)
    /\ effectFetches' = MountFetches(platform, stored)
    /\ logoutPost' = "none"
    /\ result' = MountResult(platform, stored)
    /\ UNCHANGED <<platform, profileShape, stored>>
    /\ UNCHANGED otherVars

Next ==
    \/ MobileLoginInvoke \/ MobileLoginResponse \/ MobileLoginRejected
    \/ MobileLoginStored \/ MobileLoginProfile \/ MobileLoginProfileFailed
    \/ MobileRegisterSubmit \/ MobileRegisterResponse
    \/ MobileRegisterRejected \/ MobileRegisterStored
    \/ MobileRegisterProfile \/ MobileRegisterProfileFailed
    \/ MobileLogoutInvoke \/ MobileLogoutSettled \/ MobileLogoutRemoved
    \/ MobileUpdateProfileInvoke \/ MobileUpdateProfileResponse
    \/ MobileUpdateProfileRejected
    \/ MobileRestoreRead \/ MobileRestoreProfile
    \/ MobileRestoreProfileFailed \/ MobileRestoreRemoved
    \/ WebEffectProfile \/ WebEffectProfileFailed
    \/ WebLogout \/ WebLogoutPostSettled
    \/ WebLoginInvoke \/ WebLoginResponse \/ WebLoginRejected
    \/ WebLoginProfile \/ WebLoginProfileFailed
    \/ handleSubmit \/ WebRegisterResponse \/ WebRegisterRejected
    \/ WebRegisterProfile \/ WebRegisterProfileFailed
    \/ WebUpdateProfileInvoke \/ WebUpdateProfileResponse
    \/ WebUpdateProfileRejected
    \/ Restart

Spec == Init /\ [][Next]_vars

(* ======================= properties of the session ===================== *)

\* C1: in every reachable state the exposed isAuthenticated flag is true
\* exactly when the exposed token and the exposed user are both present,
\* and the exposed token and user are the provider's current state.
C1_AuthenticatedIffTokenAndUser ==
    /\ value.isAuthenticated <=> (Truthy(value.token) /\ value.user.present)
    /\ value.token = token
    /\ value.user = user
\* a login has set the token and is still waiting for the profile: the
\* token is present, the user is absent
C1_Witness ==
    /\ Truthy(token) /\ ~user.present
    /\ calls["login"].pc \in {"awaitSetItem", "awaitProfile"}

\* C2: a login whose login request and own profile fetch succeeded leaves,
\* at its completion, an authenticated session whose persisted token
\* equals the in-memory token, which is the token the profile fetch sent.
C2_LoginEstablishesSession ==
    (result.op = "login" /\ result.outcome = "resolved") =>
        /\ value.isAuthenticated
        /\ stored = token
        /\ result.reqs[2] = Req("profile", token)

\* C3: a login rejected by the login endpoint leaves token, user and
\* persisted token as they were when it was invoked, and rejects with a
\* non-empty message.
C3_RejectedLoginKeepsSession ==
    (/\ result.op = "login" /\ result.outcome = "rejected"
     /\ result.remote = "server" /\ Len(result.reqs) = 1) =>
        /\ Snap = result.pre
        /\ Truthy(result.err)
\* the login endpoint rejected a login invoked while a session was held
C3_Witness ==
    /\ result.op = "login" /\ result.outcome = "rejected"
    /\ result.remote = "server" /\ Len(result.reqs) = 1
    /\ Truthy(result.pre.token) /\ result.pre.user.present

\* C4: a login that fails, at the login request or at the profile fetch,
\* leaves token, user and persisted token as they were when it was
\* invoked.
C4_FailedLoginKeepsSession ==
    (result.op = "login" /\ result.outcome = "rejected") =>
        Snap = result.pre

\* C5: once logout has completed, token and user are absent, the session
\* is unauthenticated and the persisted token is removed, however the
\* remote invalidation ended; logout never rejects.
C5_LogoutClears ==
    result.op = "logout" =>
        /\ result.outcome = "resolved"
        /\ token = Null /\ ~user.present /\ stored = Null
        /\ ~value.isAuthenticated
\* a logout from an authenticated session whose remote call failed with a
\* network error has completed
C5_Witness ==
    /\ result.op = "logout"
    /\ result.pre.user.present /\ Truthy(result.pre.token)
    /\ \/ result.remote = "network"
       \/ platform = "web" /\ logoutPost = "network"

\* C6: a session established by a successful login, restarted with the
\* persisted token and a successful profile fetch, is restored with the
\* same user id and username.
C6_RestoreRoundTrip ==
    (/\ result.op = "restore" /\ result.outcome = "resolved"
     /\ prev.via = "login") =>
        /\ user.id = prev.user.id
        /\ user.username = prev.user.username

\* C7: when the profile fetch of a session restore fails, the restore
\* ends with token, persisted token and user absent, unauthenticated.
C7_FailedRestoreClears ==
    (result.op = "restore" /\ result.outcome = "cleared") =>
        /\ token = Null /\ stored = Null /\ ~user.present
        /\ ~value.isAuthenticated

\* C8: the in-memory token and the persisted token never differ, from the
\* moment the provider has read the persisted token at startup.
C8_TokenMatchesStorage ==
    calls["restore"].pc # "awaitGetItem" => token = stored

\* C9: updateProfile without a token fails with 'Not authenticated', sends
\* no request and leaves token, user and persisted token unchanged; with a
\* token and a failing remote update it rejects and the user is unchanged.
C9_UpdateProfileGuard ==
    result.op = "updateProfile" =>
        /\ ~Truthy(result.pre.token) =>
              /\ result.outcome = "rejected"
              /\ result.err = "Not authenticated"
              /\ result.reqs = <<>>
              /\ Snap = result.pre
        /\ (Truthy(result.pre.token) /\ result.outcome = "rejected") =>
              /\ result.reqs = <<Req("updateProfile", result.pre.token)>>
              /\ user = result.pre.user
              /\ Truthy(result.err)
\* updateProfile was invoked without a token and has failed
C9_Witness ==
    /\ result.op = "updateProfile" /\ result.outcome = "rejected"
    /\ ~Truthy(result.pre.token) /\ result.reqs = <<>>

Guarded_NotPlayTrack == {"pauseTrack", "resumeTrack", "stopTrack",
                         "skipToNext", "skipToPrevious", "seekTo",
                         "setPlaylist", "addToPlaylist", "toggleShuffle",
                         "toggleRepeat"}

\* the operations whose body is a try / catch around its player calls
Guarded == {"playTrack", "pauseTrack", "resumeTrack", "stopTrack",
            "skipToNext", "skipToPrevious", "seekTo", "setPlaylist",
            "addToPlaylist", "toggleShuffle", "toggleRepeat"}

NoACall == \A s \in Slots : acalls[s].op = "none"

\* slot s is free for a new operation; operations overlap only when the
\* specification lets them
AudioCanInvoke(s) ==
    /\ aops > 0
    /\ acalls[s].op = "none"
    /\ \A t \in Slots : t < s => acalls[t].op # "none"
    /\ overlap \/ NoACall

\* an operation is invoked and sends its first command to the player
AInvoke(s, op, arg, cmd) ==
    /\ AudioCanInvoke(s)
    /\ acalls' = [acalls EXCEPT ![s] = NewACall(op, arg, cmd)]
    /\ aresult' = NoAResult
    /\ aops' = aops - 1

\* the operation in slot s sends its next command
AIssue(s, cmd) ==
    /\ acalls' = [acalls EXCEPT ![s].cmd = cmd, ![s].settled = "pending"]
    /\ UNCHANGED <<aresult, aops>>

\* the operation in slot s returns; a rejection it does not catch reaches
\* its caller
AFinish(s, ok) ==
    /\ acalls' = [acalls EXCEPT ![s] = IdleACall]
    /\ aresult' = [op |-> acalls[s].op, arg |-> acalls[s].arg, ok |-> ok,
                   threw |-> ~ok /\ acalls[s].op \notin Guarded,
                   pre |-> acalls[s].pre]
    /\ UNCHANGED aops

\* the operation in slot s is op and the player has settled its command
ASettled(s, op) ==
    /\ acalls[s].op = op
    /\ acalls[s].settled \in {"ok", "err"}

AudioFrame == UNCHANGED <<sessionVars, clientVars, screenVars, overlap>>

\* the player carries out, or rejects, the command an operation awaits
PlayerPerforms ==
    \E s \in Slots, ok \in BOOLEAN :
        /\ acalls[s].op # "none"
        /\ acalls[s].settled = "pending"
        /\ IF ok /\ PlayerAccepts(player, acalls[s].cmd)
           THEN /\ player' = PlayerAfter(player, acalls[s].cmd)
                /\ events' = events \o PlayerEmits(player, player')
                /\ acalls' = [acalls EXCEPT ![s].settled = "ok"]
           ELSE /\ acalls' = [acalls EXCEPT ![s].settled = "err"]
                /\ UNCHANGED <<player, events>>
        /\ UNCHANGED <<currentTrack, isPlaying, playlist, shuffle, repeatMode,
                       held, lookups, aresult, lastState, hist, aops>>
        /\ AudioFrame

\* variant: the handler only ever raises the flag
HandlePlaybackState_Sticky ==
    /\ events # <<>>
    /\ Head(events).type = "state"
    /\ isPlaying' = (isPlaying \/ Head(events).state = "playing")
    /\ lastState' = Head(events).state
    /\ events' = Tail(events)
    /\ UNCHANGED <<currentTrack, playlist, shuffle, repeatMode, held, player,
                   lookups, acalls, aresult, hist, aops>>
    /\ AudioFrame

\* useTrackPlayerEvents([Event.PlaybackState])
HandlePlaybackState ==
    /\ events # <<>>
    /\ Head(events).type = "state"
    /\ isPlaying' = (Head(events).state = "playing")
    /\ lastState' = Head(events).state
    /\ events' = Tail(events)
    /\ UNCHANGED <<currentTrack, playlist, shuffle, repeatMode, held, player,
                   lookups, acalls, aresult, hist, aops>>
    /\ AudioFrame

\* useTrackPlayerEvents([Event.PlaybackTrackChanged]) up to its await
HandleTrackChanged ==
    /\ events # <<>>
    /\ Head(events).type = "track"
    /\ lookups' = IF Head(events).nextTrack # UndefId
                  THEN Append(lookups, Head(events).nextTrack)
                  ELSE lookups
    /\ events' = Tail(events)
    /\ UNCHANGED <<currentTrack, isPlaying, playlist, shuffle, repeatMode,
                   held, player, acalls, aresult, lastState, hist, aops>>
    /\ AudioFrame

\* variant: the handler drops the track it looked up
HandleTrackChangedResumes_Drops ==
    /\ lookups # <<>>
    /\ currentTrack' = currentTrack
    /\ lookups' = Tail(lookups)
    /\ UNCHANGED <<isPlaying, playlist, shuffle, repeatMode, held, player,
                   events, acalls, aresult, lastState, hist, aops>>
    /\ AudioFrame

\* ... and after it: TrackPlayer.getTrack has answered
HandleTrackChangedResumes ==
    /\ lookups # <<>>
    /\ currentTrack' = getTrack(player, Head(lookups))
    /\ lookups' = Tail(lookups)
    /\ UNCHANGED <<isPlaying, playlist, shuffle, repeatMode, held, player,
                   events, acalls, aresult, lastState, hist, aops>>
    /\ AudioFrame

\* the consumers render again and hold the functions of the new render
Rerender ==
    /\ held # Render(shuffle, repeatMode)
    /\ held' = Render(shuffle, repeatMode)
    /\ UNCHANGED <<currentTrack, isPlaying, playlist, shuffle, repeatMode,
                   player, events, lookups, acalls, aresult, lastState, hist,
                   aops>>
    /\ AudioFrame

(* ------------------------------ playTrack ------------------------------ *)
\* playTrack(track), called in slot s: try { await TrackPlayer.reset(); ...
playTrackCall(s, track) ==
    /\ AInvoke(s, "playTrack", <<track>>, Cmd("reset", <<>>))
    /\ hist' = [hist EXCEPT !.valid = FALSE, !.stopped = FALSE,
                            !.intent = track,
                            !.caught = hist.caught /\ ~NoACall]
    /\ UNCHANGED <<currentTrack, isPlaying, playlist, shuffle, repeatMode,
                   held, player, events, lookups, lastState>>

\* playTrack(track) invoked on its own
playTrack ==
    \E s \in Slots, track \in Tracks :
        /\ playTrackCall(s, track)
        /\ AudioFrame

\* reset() or add(track) has resolved: the next command goes out
playTrackNext ==
    \E s \in Slots :
        /\ ASettled(s, "playTrack")
        /\ acalls[s].settled = "ok"
        /\ acalls[s].cmd.name \in {"reset", "add"}
        /\ AIssue(s, IF acalls[s].cmd.name = "reset"
                     THEN Cmd("add", acalls[s].arg)
                     ELSE Cmd("play", <<>>))
        /\ UNCHANGED <<currentTrack, isPlaying, playlist, shuffle, repeatMode,
                       held, player, events, lookups, lastState, hist>>
        /\ AudioFrame

\* play() has resolved: setCurrentTrack(track)
playTrackDone ==
    \E s \in Slots :
        /\ ASettled(s, "playTrack")
        /\ acalls[s].settled = "ok"
        /\ acalls[s].cmd.name = "play"
        /\ currentTrack' = acalls[s].arg[1]
        /\ AFinish(s, TRUE)
        /\ UNCHANGED <<isPlaying, playlist, shuffle, repeatMode, held, player,
                       events, lookups, lastState, hist>>
        /\ AudioFrame

\* one of the three calls has rejected: catch, console.error
playTrackCatch ==
    \E s \in Slots :
        /\ ASettled(s, "playTrack")
        /\ acalls[s].settled = "err"
        /\ AFinish(s, FALSE)
        /\ hist' = [hist EXCEPT !.caught = TRUE]
        /\ UNCHANGED <<currentTrack, isPlaying, playlist, shuffle, repeatMode,
                       held, player, events, lookups, lastState>>
        /\ AudioFrame

(* ------------- operations made of one awaited player call -------------- *)
\* try { await TrackPlayer.<cmd>() } catch { console.error }
SingleInvoke(op, cmd) ==
    \E s \in Slots :
        /\ AInvoke(s, op, <<>>, cmd)
        /\ UNCHANGED <<currentTrack, isPlaying, playlist, shuffle, repeatMode,
                       held, player, events, lookups, lastState, hist>>
        /\ AudioFrame

\* variant: the operation clears isPlaying itself once its call resolves
SingleSettled_Optimistic(op, step) ==
    \E s \in Slots :
        /\ ASettled(s, op)
        /\ AFinish(s, acalls[s].settled = "ok")
        /\ hist' = IF acalls[s].settled = "ok"
                   THEN [hist EXCEPT !.k = hist.k + step]
                   ELSE hist
        /\ isPlaying' = IF acalls[s].settled = "ok" THEN FALSE ELSE isPlaying
        /\ UNCHANGED <<currentTrack, playlist, shuffle, repeatMode,
                       held, player, events, lookups, lastState>>
        /\ AudioFrame

\* the call has resolved or rejected; the skips that resolved are counted
SingleSettled(op, step) ==
    \E s \in Slots :
        /\ ASettled(s, op)
        /\ AFinish(s, acalls[s].settled = "ok")
        /\ hist' = IF acalls[s].settled = "ok"
                   THEN [hist EXCEPT !.k = hist.k + step]
                   ELSE hist
        /\ UNCHANGED <<currentTrack, isPlaying, playlist, shuffle, repeatMode,
                       held, player, events, lookups, lastState>>
        /\ AudioFrame

pauseTrack == SingleInvoke("pauseTrack", Cmd("pause", <<>>))
pauseTrackSettled == SingleSettled("pauseTrack", 0)

resumeTrack == SingleInvoke("resumeTrack", Cmd("play", <<>>))
resumeTrackSettled == SingleSettled("resumeTrack", 0)

skipToNext == SingleInvoke("skipToNext", Cmd("skipToNext", <<>>))
skipToNextSettled == SingleSettled("skipToNext", 1)

skipToPrevious == SingleInvoke("skipToPrevious", Cmd("skipToPrevious", <<>>))
skipToPreviousSettled == SingleSettled("skipToPrevious", -1)

seekTo ==
    \E s \in Slots, position \in Positions :
        /\ AInvoke(s, "seekTo", <<position>>, Cmd("seekTo", <<position>>))
        /\ UNCHANGED <<currentTrack, isPlaying, playlist, shuffle, repeatMode,
                       held, player, events, lookups, lastState, hist>>
        /\ AudioFrame
\* variant: seekTo clears the current track once its call has settled
seekToSettled_ClearsTrack ==
    \E s \in Slots :
        /\ ASettled(s, "seekTo")
        /\ AFinish(s, acalls[s].settled = "ok")
        /\ currentTrack' = Null
        /\ UNCHANGED <<isPlaying, playlist, shuffle, repeatMode, held, player,
                       events, lookups, lastState, hist>>
        /\ AudioFrame

seekToSettled == SingleSettled("seekTo", 0)

(* ------------------------------ stopTrack ------------------------------ *)
stopTrack ==
    \E s \in Slots :
        /\ AInvoke(s, "stopTrack", <<>>, Cmd("stop", <<>>))
        /\ hist' = [hist EXCEPT !.valid = FALSE]
        /\ UNCHANGED <<currentTrack, isPlaying, playlist, shuffle, repeatMode,
                       held, player, events, lookups, lastState>>
        /\ AudioFrame

\* stop() has resolved: setCurrentTrack(null); it has rejected: console.error
stopTrackSettled ==
    \E s \in Slots :
        /\ ASettled(s, "stopTrack")
        /\ currentTrack' = IF acalls[s].settled = "ok" THEN Null
                           ELSE currentTrack
        /\ AFinish(s, acalls[s].settled = "ok")
        /\ hist' = [hist EXCEPT !.stopped = TRUE]
        /\ UNCHANGED <<isPlaying, playlist, shuffle, repeatMode, held, player,
                       events, lookups, lastState>>
        /\ AudioFrame

(* ----------------------------- setPlaylist ----------------------------- *)
\* variant: setPlaylist adds without resetting the player first
setPlaylist_NoReset ==
    \E s \in Slots, tracks \in TrackLists :
        /\ AInvoke(s, "setPlaylist", tracks, Cmd("add", tracks))
        /\ hist' = [hist EXCEPT !.valid = FALSE, !.stopped = FALSE]
        /\ UNCHANGED <<currentTrack, isPlaying, playlist, shuffle, repeatMode,
                       held, player, events, lookups, lastState>>
        /\ AudioFrame

setPlaylist ==
    \E s \in Slots, tracks \in TrackLists :
        /\ AInvoke(s, "setPlaylist", tracks, Cmd("reset", <<>>))
        /\ hist' = [hist EXCEPT !.valid = FALSE, !.stopped = FALSE]
        /\ UNCHANGED <<currentTrack, isPlaying, playlist, shuffle, repeatMode,
                       held, player, events, lookups, lastState>>
        /\ AudioFrame

\* reset() has resolved: add(tracks) goes out
setPlaylistNext ==
    \E s \in Slots :
        /\ ASettled(s, "setPlaylist")
        /\ acalls[s].settled = "ok"
        /\ acalls[s].cmd.name = "reset"
        /\ AIssue(s, Cmd("add", acalls[s].arg))
        /\ UNCHANGED <<currentTrack, isPlaying, playlist, shuffle, repeatMode,
                       held, player, events, lookups, lastState, hist>>
        /\ AudioFrame

\* add(tracks) has resolved: setPlaylistState(tracks) and, for a list that
\* is not empty, setCurrentTrack(tracks[0])
setPlaylistDone ==
    \E s \in Slots :
        /\ ASettled(s, "setPlaylist")
        /\ acalls[s].settled = "ok"
        /\ acalls[s].cmd.name = "add"
        /\ playlist' = acalls[s].arg
        /\ currentTrack' = IF Len(acalls[s].arg) > 0 THEN acalls[s].arg[1]
                           ELSE currentTrack
        /\ hist' = [hist EXCEPT !.valid = TRUE, !.list = acalls[s].arg,
                                !.k = 0]
        /\ AFinish(s, TRUE)
        /\ UNCHANGED <<isPlaying, shuffle, repeatMode, held, player, events,
                       lookups, lastState>>
        /\ AudioFrame

setPlaylistCatch ==
    \E s \in Slots :
        /\ ASettled(s, "setPlaylist")
        /\ acalls[s].settled = "err"
        /\ AFinish(s, FALSE)
        /\ UNCHANGED <<currentTrack, isPlaying, playlist, shuffle, repeatMode,
                       held, player, events, lookups, lastState, hist>>
        /\ AudioFrame

(* ---------------------------- addToPlaylist ---------------------------- *)
addToPlaylist ==
    \E s \in Slots, track \in Tracks :
        /\ AInvoke(s, "addToPlaylist", <<track>>, Cmd("add", <<track>>))
        /\ hist' = [hist EXCEPT !.valid = FALSE]
        /\ UNCHANGED <<currentTrack, isPlaying, playlist, shuffle, repeatMode,
                       held, player, events, lookups, lastState>>
        /\ AudioFrame

\* add(track) has resolved: setPlaylistState(prev => [...prev, track])
addToPlaylistSettled ==
    \E s \in Slots :
        /\ ASettled(s, "addToPlaylist")
        /\ playlist' = IF acalls[s].settled = "ok"
                       THEN Append(playlist, acalls[s].arg[1])
                       ELSE playlist
        /\ AFinish(s, acalls[s].settled = "ok")
        /\ UNCHANGED <<currentTrack, isPlaying, shuffle, repeatMode, held,
                       player, events, lookups, lastState, hist>>
        /\ AudioFrame

(* ---------------------- toggleShuffle, toggleRepeat -------------------- *)
\* no player call: setShuffle(!shuffle) with the shuffle of the render held
toggleShuffle ==
    /\ AudioCanInvoke(1)
    /\ shuffle' = ~held.shuffle
    /\ aresult' = [op |-> "toggleShuffle", arg |-> <<>>, ok |-> TRUE,
                   threw |-> FALSE, pre |-> AudioSnap]
    /\ aops' = aops - 1
    /\ UNCHANGED <<currentTrack, isPlaying, playlist, repeatMode, held, player,
                   events, lookups, acalls, lastState, hist>>
    /\ AudioFrame

\* the switch of toggleRepeat
NextRepeatMode(rm) ==
    CASE rm = "off" -> "track"
      [] rm = "track" -> "queue"
      [] rm = "queue" -> "off"
      [] OTHER -> "off"

\* the new mode is computed from the repeatMode of the render held
toggleRepeat ==
    \E s \in Slots :
        /\ AInvoke(s, "toggleRepeat", <<NextRepeatMode(held.repeatMode)>>,
                   Cmd("setRepeatMode", <<NextRepeatMode(held.repeatMode)>>))
        /\ UNCHANGED <<currentTrack, isPlaying, playlist, shuffle, repeatMode,
                       held, player, events, lookups, lastState, hist>>
        /\ AudioFrame

\* setRepeatMode has resolved: setRepeatModeState(newRepeatMode)
toggleRepeatSettled ==
    \E s \in Slots :
        /\ ASettled(s, "toggleRepeat")
        /\ repeatMode' = IF acalls[s].settled = "ok" THEN acalls[s].arg[1]
                         ELSE repeatMode
        /\ AFinish(s, acalls[s].settled = "ok")
        /\ UNCHANGED <<currentTrack, isPlaying, playlist, shuffle, held,
                       player, events, lookups, lastState, hist>>
        /\ AudioFrame

(* ------------------------- the controller alone ------------------------ *)
\* the mobile app started with no stored token; only the Playback
\* Controller is exercised, one operation at a time. The player changes
\* track and state only on command: a track playing to its end is not
\* modelled.
InitPlayback(n, o) ==
    /\ platform = "mobile"
    /\ profileShape = "withUser"
    /\ stored = Null
    /\ user = NoUser
    /\ token = MountToken(platform, stored)
    /\ value = ProviderValue(token, user)
    /\ calls = MountCalls(platform, stored)
    /\ effectFetches = MountFetches(platform, stored)
    /\ logoutPost = "none"
    /\ result = MountResult(platform, stored)
    /\ prev = NoPrev
    /\ nops = 0
    /\ AudioInit
    /\ overlap = o
    /\ aops = n
    /\ ClientInit
    /\ ScreenInit

InitController(n) == InitPlayback(n, FALSE)

InitAudio == InitController(MaxAudioOps)

NextAudio ==
    \/ PlayerPerforms
    \/ HandlePlaybackState
    \/ HandleTrackChanged
    \/ HandleTrackChangedResumes
    \/ Rerender
    \/ playTrack
    \/ playTrackNext
    \/ playTrackDone
    \/ playTrackCatch
    \/ pauseTrack
    \/ pauseTrackSettled
    \/ resumeTrack
    \/ resumeTrackSettled
    \/ stopTrack
    \/ stopTrackSettled
    \/ skipToNext
    \/ skipToNextSettled
    \/ skipToPrevious
    \/ skipToPreviousSettled
    \/ seekTo
    \/ seekToSettled
    \/ setPlaylist
    \/ setPlaylistNext
    \/ setPlaylistDone
    \/ setPlaylistCatch
    \/ addToPlaylist
    \/ addToPlaylistSettled
    \/ toggleShuffle
    \/ toggleRepeat
    \/ toggleRepeatSettled

SpecAudio == InitAudio /\ [][NextAudio]_vars

\* playTrack alone, invoked again while an earlier playTrack is running:
\* as many calls as can be in flight together
InitRace == InitPlayback(Cardinality(Slots), TRUE)

NextRace ==
    \/ PlayerPerforms
    \/ HandlePlaybackState
    \/ HandleTrackChanged
    \/ HandleTrackChangedResumes
    \/ playTrack
    \/ playTrackNext
    \/ playTrackDone
    \/ playTrackCatch

SpecRace == InitRace /\ [][NextRace]_vars

\* setPlaylist and the two skips alone, for longer runs of them
InitSkips == InitController(MaxSkipOps)

NextSkips ==
    \/ PlayerPerforms
    \/ HandlePlaybackState
    \/ HandleTrackChanged
    \/ HandleTrackChangedResumes
    \/ setPlaylist
    \/ setPlaylistNext
    \/ setPlaylistDone
    \/ setPlaylistCatch
    \/ skipToNext
    \/ skipToNextSettled
    \/ skipToPrevious
    \/ skipToPreviousSettled

SpecSkips == InitSkips /\ [][NextSkips]_vars

\* the two toggles alone, for longer runs of them
InitToggle == InitController(MaxToggleOps)

NextToggle ==
    \/ PlayerPerforms
    \/ Rerender
    \/ toggleShuffle
    \/ toggleRepeat
    \/ toggleRepeatSettled

SpecToggle == InitToggle /\ [][NextToggle]_vars


(* ================= properties of the Playback Controller =============== *)
\* no operation in flight and every player event handled
AudioQuiet == NoACall /\ events = <<>> /\ lookups = <<>>

\* C11: once the player's events are delivered, after a successful
\* setPlaylist of n tracks followed by skips of which k more went forward
\* than back (0 <= k < n), currentTrack is the (k+1)-th track of the list:
\* two skipToNext after setPlaylist([t1, t2, t3]) give t3 and a
\* skipToPrevious after them gives t2.
C11_SkipsSelectTrack ==
    (AudioQuiet /\ hist.valid /\ hist.k \in 0..(Len(hist.list) - 1))
        => currentTrack = hist.list[hist.k + 1]
\* two skips forward and one back over a list of three, events delivered
C11_Witness ==
    /\ AudioQuiet
    /\ hist.valid
    /\ hist.list = <<"a", "b", "c">>
    /\ hist.k = 1
    /\ aresult.op = "skipToPrevious"
    /\ aresult.ok
    /\ currentTrack = "b"


\* C12: every toggleRepeat whose player call succeeded leaves repeatMode at
\* the successor, in the cycle off -> track -> queue -> off, of the
\* repeatMode it was invoked at, whether or not the consumers have rendered
\* since the invocation before it (so three of them return to the start).
C12_ToggleRepeatCycles ==
    (aresult.op = "toggleRepeat" /\ aresult.ok)
        => repeatMode = NextRepeatMode(aresult.pre.repeatMode)


\* C17: no controller operation (playTrack, pauseTrack, resumeTrack,
\* stopTrack, skipToNext, skipToPrevious, seekTo, setPlaylist,
\* addToPlaylist, toggleShuffle, toggleRepeat) lets a rejection of a player
\* call reach its caller: the operation returns normally.
C17_NoPlayerErrorEscapes == ~aresult.threw
\* a playTrack one of whose player calls was rejected has returned
C17_Witness ==
    /\ aresult.op = "playTrack"
    /\ ~aresult.ok
    /\ NoACall


\* C18 as stated: isPlaying changes only in the handler of the player's
\* state-changed event and currentTrack only in the handler of its
\* track-changed event; no controller operation sets either.
C18_OnlyHandlersSet ==
    [][/\ isPlaying' # isPlaying => HandlePlaybackState
       /\ currentTrack' # currentTrack => HandleTrackChangedResumes]_vars
\* C18 amended: isPlaying changes only in the handler of the state-changed
\* event; currentTrack changes only in the handler of the track-changed
\* event or in playTrack, setPlaylist and stopTrack once their player calls
\* have resolved.
C18_OnlyHandlersAndLoadsSet ==
    [][/\ isPlaying' # isPlaying => HandlePlaybackState
       /\ currentTrack' # currentTrack =>
              \/ HandleTrackChangedResumes
              \/ playTrackDone
              \/ setPlaylistDone
              \/ stopTrackSettled]_vars
\* stopTrack has cleared a current track itself, and isPlaying is still
\* what the last handled state event made it
C18_Witness ==
    /\ aresult.op = "stopTrack"
    /\ aresult.ok
    /\ aresult.pre.currentTrack # Null
    /\ currentTrack = Null
    /\ isPlaying
    /\ lastState = "playing"


\* C19: once stopTrack has completed, whether or not the player's stop call
\* succeeded, currentTrack is absent, and it stays absent, whatever player
\* events are handled, until playTrack or setPlaylist is invoked.
C19_StopClearsTrack == hist.stopped => currentTrack = Null


ClientFrame ==
    UNCHANGED <<sessionVars, audioVars, screenVars, compositions, like, loading>>

\* a list method gets a 2xx response: return response.data.results ||
\* response.data (or response.data as it is)
ListResolved ==
    \E m \in ListMethods, body \in ListBodies :
        /\ api = NoApi
        /\ api' = [method |-> m, outcome |-> "resolved", body |-> body,
                   value |-> Returned(m, body), error |-> NoError,
                   message |-> ""]
        /\ UNCHANGED webList
        /\ ClientFrame

\* the request of a method fails: catch (error) { throw
\* this.handleError(error) }, or nothing thrown where the catch ignores it
MethodFailed ==
    \E m \in Methods, e \in ErrorResponses :
        /\ api = NoApi
        /\ api' = IF m \in Swallows
                  THEN [method |-> m, outcome |-> "resolved", body |-> NoBody,
                        value |-> NoBody, error |-> e, message |-> ""]
                  ELSE [method |-> m, outcome |-> "rejected", body |-> NoBody,
                        value |-> NoBody, error |-> e,
                        message |-> handleError(e)]
        /\ UNCHANGED webList
        /\ ClientFrame

\* web App, fetch on tab change: setGenres(genresRes.data),
\* setCompositions(compositionsRes.data), setTracks(res.data)
AppFetchOnTab ==
    \E body \in ListBodies :
        /\ webList = NoWebList
        /\ webList' = [by |-> "tab", body |-> body, value |-> body]
        /\ UNCHANGED api
        /\ ClientFrame

\* web MainApp: fetchGenres, fetchCompositions, fetchTracks, fetchAIModels
fetchList ==
    \E body \in ListBodies :
        /\ webList = NoWebList
        /\ webList' = [by |-> "fetch", body |-> body,
                       value |-> OrResults(body)]
        /\ UNCHANGED api
        /\ ClientFrame

\* one call of the client and one list fetch of the web client per run,
\* over every method, body and failure; the client keeps nothing from one
\* call to the next
InitClient == InitController(0)

NextClient ==
    \/ ListResolved
    \/ MethodFailed
    \/ AppFetchOnTab
    \/ fetchList

SpecClient == InitClient /\ [][NextClient]_vars

(* ===================== properties of the API client ==================== *)
\* the list a body carries
ListOf(body) == IF body.isArray THEN body.items ELSE body.results

\* C13: every list method of the client returns L for a 2xx body
\* { results: L } and for a bare array L, the empty list included, and
\* unwrapping what was unwrapped changes nothing; the lists the web client
\* fetches are stored as L for both shapes too.
C13_ListsUnwrapped ==
    /\ (api.outcome = "resolved" /\ api.method \in ListMethods)
           => api.value = ArrayBody(ListOf(api.body))
    /\ \A body \in ListBodies : OrResults(OrResults(body)) = OrResults(body)
    /\ webList.by # "none" => webList.value = ArrayBody(ListOf(webList.body))


\* a member of the response body is there, whatever its text
Present(s) == s # Undef

\* C15 as stated: on a non-2xx response the method fails with the body's
\* detail if that member is present, else its message if present, else its
\* error if present, else a generic text that is not empty.
C15_FirstPresentMember ==
    (api.outcome = "rejected" /\ api.error.kind = "response") =>
        /\ Present(api.error.detail) => api.message = api.error.detail
        /\ (~Present(api.error.detail) /\ Present(api.error.message))
               => api.message = api.error.message
        /\ (/\ ~Present(api.error.detail) /\ ~Present(api.error.message)
            /\ Present(api.error.error))
               => api.message = api.error.error
        /\ (/\ ~Present(api.error.detail) /\ ~Present(api.error.message)
            /\ ~Present(api.error.error))
               => api.message = "An error occurred"
\* C15 amended: the message is the body's detail if that member is present
\* and not empty, else its message if present and not empty, else its error
\* if present and not empty, else a generic text; it is never empty.
C15_FirstNonEmptyMember ==
    (api.outcome = "rejected" /\ api.error.kind = "response") =>
        /\ api.message # ""
        /\ Truthy(api.error.detail) => api.message = api.error.detail
        /\ (~Truthy(api.error.detail) /\ Truthy(api.error.message))
               => api.message = api.error.message
        /\ (/\ ~Truthy(api.error.detail) /\ ~Truthy(api.error.message)
            /\ Truthy(api.error.error))
               => api.message = api.error.error
        /\ (/\ ~Truthy(api.error.detail) /\ ~Truthy(api.error.message)
            /\ ~Truthy(api.error.error))
               => api.message = "An error occurred"
\* a body with all three members has been turned into an error
C15_Witness ==
    /\ api.outcome = "rejected"
    /\ api.error.kind = "response"
    /\ api.error.detail = "d"
    /\ api.error.message = "m"
    /\ api.error.error = "e"
    /\ api.message = "d"

\* C16 as stated: every method of the client, logout included, fails when
\* its request gets no response, with the network error, which no non-2xx
\* response produces.
C16_EveryMethodNetworkError ==
    api.error.kind = "request" =>
        /\ api.outcome = "rejected"
        /\ api.message = "Network error - please check your connection"
        /\ \A e \in ErrorResponses :
               e.kind = "response" => handleError(e) # api.message
\* C16 amended: every method except logout fails so; logout returns
\* normally.
C16_NetworkErrorButLogout ==
    api.error.kind = "request" =>
        IF api.method = "logout"
        THEN api.outcome = "resolved"
        ELSE /\ api.outcome = "rejected"
             /\ api.message = "Network error - please check your connection"
             /\ \A e \in ErrorResponses :
                    e.kind = "response" => handleError(e) # api.message
\* logout has returned normally from a request that got no response
C16_Witness ==
    /\ api.method = "logout"
    /\ api.error.kind = "request"
    /\ api.outcome = "resolved"


(* ============================== HomeScreen ============================= *)
HomeFrame == UNCHANGED <<sessionVars, audioVars, screenVars, api, webList>>

\* compositionsData.slice(0, 10)
Latest(L) == SubSeq(L, 1, IF Len(L) < 10 THEN Len(L) ELSE 10)

\* variant: every composition is counted up
Liked_All(comps, id) ==
    [i \in 1..Len(comps) |->
        [comps[i] EXCEPT !.like_count = comps[i].like_count + 1]]

\* prev.map(comp => comp.id === compositionId
\*     ? { ...comp, like_count: comp.like_count + 1 } : comp)
Liked(comps, id) ==
    [i \in 1..Len(comps) |->
        IF comps[i].id = id
        THEN [comps[i] EXCEPT !.like_count = comps[i].like_count + 1]
        ELSE comps[i]]

\* onRefresh: loadHomeData up to await ApiService.getCompositions
loadHomeData ==
    /\ ~loading
    /\ loading' = TRUE
    /\ UNCHANGED <<compositions, like>>
    /\ HomeFrame

\* ... the list has arrived: setCompositions(compositionsData.slice(0, 10))
loadHomeDataResolved ==
    \E L \in CompositionLists :
        /\ loading
        /\ compositions' = Latest(L)
        /\ loading' = FALSE
        /\ UNCHANGED like
        /\ HomeFrame

\* ... the request has failed: Alert
loadHomeDataRejected ==
    /\ loading
    /\ loading' = FALSE
    /\ UNCHANGED <<compositions, like>>
    /\ HomeFrame

\* handleLikeComposition of a composition shown: without a token it alerts
\* and returns, with one it awaits ApiService.likeComposition
handleLikeComposition ==
    \E i \in 1..Len(compositions) :
        /\ like.pc # "awaiting"
        /\ \A j \in 1..Len(compositions) :
               compositions[j].like_count < MaxLikeCount
        /\ like' = IF ~Truthy(token)
                   THEN [like EXCEPT !.pc = "done", !.id = compositions[i].id,
                                     !.outcome = "noToken",
                                     !.pre = compositions]
                   ELSE [like EXCEPT !.pc = "awaiting",
                                     !.id = compositions[i].id,
                                     !.outcome = "none", !.pre = <<>>]
        /\ UNCHANGED <<compositions, loading>>
        /\ HomeFrame

\* the like request has succeeded: the state update runs
handleLikeCompositionResolved ==
    /\ like.pc = "awaiting"
    /\ compositions' = Liked(compositions, like.id)
    /\ like' = [like EXCEPT !.pc = "done", !.outcome = "liked",
                            !.pre = compositions]
    /\ UNCHANGED loading
    /\ HomeFrame

\* the like request has failed: Alert
handleLikeCompositionRejected ==
    /\ like.pc = "awaiting"
    /\ like' = [like EXCEPT !.pc = "done", !.outcome = "failed",
                            !.pre = compositions]
    /\ UNCHANGED <<compositions, loading>>
    /\ HomeFrame

\* the mobile app starts, restores its session and shows the HomeScreen
InitHome ==
    /\ Init
    /\ platform = "mobile"
    /\ profileShape = "withUser"

NextHome ==
    \/ MobileRestoreRead
    \/ MobileRestoreProfile
    \/ MobileRestoreProfileFailed
    \/ MobileRestoreRemoved
    \/ loadHomeData
    \/ loadHomeDataResolved
    \/ loadHomeDataRejected
    \/ handleLikeComposition
    \/ handleLikeCompositionResolved
    \/ handleLikeCompositionRejected

SpecHome == InitHome /\ [][NextHome]_vars

(* ===================== properties of the HomeScreen ==================== *)
\* C14: the step in which a like of composition id c succeeds raises the
\* like_count of the composition with id c by exactly 1 and changes no other
\* composition and no other field; the step in which a like fails, or is
\* refused for want of a token, changes no composition.
C14_LikeCountsOne ==
    [][(like'.pc = "done" /\ like' # like) =>
          IF like'.outcome = "liked"
          THEN /\ Len(compositions') = Len(compositions)
               /\ \A i \in 1..Len(compositions) :
                      IF compositions[i].id = like'.id
                      THEN /\ compositions'[i].like_count
                                  = compositions[i].like_count + 1
                           /\ compositions'[i].id = compositions[i].id
                           /\ compositions'[i].title = compositions[i].title
                      ELSE compositions'[i] = compositions[i]
          ELSE compositions' = compositions]_vars
\* a like of one of three compositions has succeeded
C14_Witness ==
    /\ like.pc = "done"
    /\ like.outcome = "liked"
    /\ Len(like.pre) = 3
    /\ compositions = Liked(like.pre, like.id)
    /\ \E i \in 1..3 : like.pre[i].id = like.id


C22_ResetBeforeLoad ==
    [][/\ \A s \in Slots :
              (/\ acalls'[s].op \in {"playTrack", "setPlaylist"}
               /\ acalls'[s].cmd.name = "add"
               /\ acalls'[s].settled = "pending"
               /\ acalls'[s] # acalls[s])
                  => (/\ acalls[s].op = acalls'[s].op
                      /\ acalls[s].cmd.name = "reset"
                      /\ acalls[s].settled = "ok")
       /\ (aresult'.op \in {"playTrack", "setPlaylist"} /\ aresult'.ok)
              => player'.queue = aresult'.arg]_vars
\* a setPlaylist has succeeded on a player that held another track
C22_Witness ==
    /\ aresult.op = "setPlaylist"
    /\ aresult.ok
    /\ aresult.arg = <<"b", "a">>
    /\ aresult.pre.player.queue = <<"c">>
    /\ player.queue = <<"b", "a">>


\* C23: when playTrack calls have overlapped and none of them has failed,
\* then once all have returned and every player event is handled,
\* currentTrack is the track of the playTrack invoked last and the player
\* is playing that track.
C23_LatestIntentWins ==
    (AudioQuiet /\ aresult.op = "playTrack" /\ ~hist.caught)
        => /\ currentTrack = hist.intent
           /\ player.state = "playing"
           /\ player.index # 0
           /\ player.queue[player.index] = hist.intent


\* C24: a toggleShuffle leaves shuffle the opposite of what it was when the
\* call was made (so two consecutive calls restore it) and leaves the
\* exposed playlist, the player's queue, currentTrack, isPlaying and
\* repeatMode as they were.
C24_ToggleShuffleFlips ==
    aresult.op = "toggleShuffle"
        => /\ shuffle = ~aresult.pre.shuffle
           /\ playlist = aresult.pre.playlist
           /\ player.queue = aresult.pre.player.queue
           /\ currentTrack = aresult.pre.currentTrack
           /\ isPlaying = aresult.pre.isPlaying
           /\ repeatMode = aresult.pre.repeatMode


\* C25: whenever no controller operation is in flight, the exposed playlist
\* is the player's queue.
C25_PlaylistIsQueue == NoACall => playlist = player.queue


\* C26: with no operation in flight and every player event handled, a
\* currentTrack that is present is the player's active track.
C26_CurrentTrackIsLoaded ==
    (AudioQuiet /\ currentTrack # Null)
        => /\ player.index # 0
           /\ player.queue[player.index] = currentTrack


(* ------------- mobile Session Manager: overlapping operations ----------- *)
\* login and logout are plain async functions of the provider: nothing
\* keeps the UI from invoking one while the other one is awaiting. The
\* run is a fresh install (nothing persisted) with one invocation per
\* operation of RaceOps; an operation is not invoked again while its own
\* earlier call is pending.
RaceOps == {"login", "logout"}

RaceCanInvoke(o) == calls[o].pc = "idle" /\ nops < Cardinality(RaceOps)

InitLogoutRace == InitApp(TRUE, 0) /\ platform = "mobile" /\ stored = Null

NextLogoutRace ==
    \/ RaceCanInvoke("login") /\ MobileLoginInvoke
    \/ MobileLoginResponse
    \/ MobileLoginRejected
    \/ MobileLoginStored
    \/ MobileLoginProfile
    \/ MobileLoginProfileFailed
    \/ RaceCanInvoke("logout") /\ MobileLogoutInvoke
    \/ MobileLogoutSettled
    \/ MobileLogoutRemoved
    \/ MobileRestoreRead
    \/ MobileRestoreProfile
    \/ MobileRestoreProfileFailed
    \/ MobileRestoreRemoved

SpecLogoutRace == InitLogoutRace /\ [][NextLogoutRace]_vars

\* C27: once logout has completed and until another operation is invoked
\* (every invocation clears result), the session is unauthenticated, no
\* token or user is held and no token is persisted, whatever a login or
\* register that was in flight when logout ran does afterwards
C27_LogoutStaysLoggedOut ==
    result.op = "logout" =>
        /\ ~value.isAuthenticated
        /\ token = Null
        /\ user = NoUser
        /\ stored = Null


\* C28: on the web, a login invoked while logged out whose login request
\* and own profile fetch succeeded leaves, once the profile fetch of the
\* token effect has completed too, an authenticated session whose user
\* has the user_id of the login response
C28_WebLoginSurvivesEffect ==
    (/\ platform = "web" /\ Quiescent
     /\ result.op = "login" /\ result.outcome = "resolved"
     /\ ~Truthy(result.pre.token) /\ ~result.pre.user.present) =>
        /\ value.isAuthenticated
        /\ user.id = Account(result.reqs[2].tok).user_id


(* =============== HomeScreen: handlePlayComposition ===================== *)
\* composition.audio_file: absent, or the file's URL
AudioFiles == {Null, "url"}

\* id: composition.id.toString() of the track handed to playTrack
TrackOf(id) == IF id = 1 THEN "a" ELSE IF id = 2 THEN "b" ELSE "c"

ScreenFrame == UNCHANGED <<sessionVars, clientVars, socketVars, overlap>>

\* handlePlayComposition(composition): if (composition.audio_file)
\* await playTrack(track); else Alert 'Audio Not Available'
handlePlayComposition ==
    \E id \in CompositionIds, audio \in AudioFiles :
        /\ playCall.pc \in {"idle", "done"}
        /\ IF Truthy(audio)
           THEN /\ \E s \in Slots : playTrackCall(s, TrackOf(id))
                /\ playCall' = [NoPlayCall EXCEPT !.pc = "awaitPlayTrack",
                                   !.id = id, !.audio = audio, !.token = token]
           ELSE /\ aops > 0
                /\ aops' = aops - 1
                /\ playCall' = [NoPlayCall EXCEPT !.pc = "done", !.id = id,
                                   !.audio = audio, !.token = token]
                /\ UNCHANGED <<currentTrack, isPlaying, playlist, shuffle,
                               repeatMode, held, player, events, lookups,
                               acalls, aresult, lastState, hist>>
        /\ UNCHANGED recorded
        /\ ScreenFrame

\* playTrack has returned (it never throws): if (token)
\* await ApiService.playTrack(composition.id, token)
handlePlayCompositionPlayed ==
    /\ playCall.pc = "awaitPlayTrack"
    /\ NoACall
    /\ aresult.op = "playTrack"
    /\ playCall' = [playCall EXCEPT
                       !.pc = IF Truthy(playCall.token) THEN "awaitRecord"
                              ELSE "done",
                       !.started = aresult.ok]
    /\ UNCHANGED <<audioVars, recorded>>
    /\ UNCHANGED <<sessionVars, clientVars, socketVars>>

\* POST /streaming/api/tracks/<id>/play/ answered 2xx: the server has
\* recorded the play
handlePlayCompositionRecorded ==
    /\ playCall.pc = "awaitRecord"
    /\ recorded' = Append(recorded, playCall)
    /\ playCall' = [playCall EXCEPT !.pc = "done"]
    /\ UNCHANGED audioVars
    /\ UNCHANGED <<sessionVars, clientVars, socketVars>>

\* the POST failed: ApiService.playTrack throws handleError(error),
\* the catch shows Alert 'Playback Error'
handlePlayCompositionRejected ==
    /\ playCall.pc = "awaitRecord"
    /\ playCall' = [playCall EXCEPT !.pc = "done"]
    /\ UNCHANGED <<audioVars, recorded>>
    /\ UNCHANGED <<sessionVars, clientVars, socketVars>>

\* the mobile app starts, restores its session and plays compositions
\* from the HomeScreen, one at a time
InitPlay ==
    /\ InitApp(FALSE, MaxAudioOps)
    /\ platform = "mobile"
    /\ profileShape = "withUser"

NextPlay ==
    \/ MobileRestoreRead
    \/ MobileRestoreProfile
    \/ MobileRestoreProfileFailed
    \/ MobileRestoreRemoved
    \/ PlayerPerforms
    \/ HandlePlaybackState
    \/ HandleTrackChanged
    \/ HandleTrackChangedResumes
    \/ playTrackNext
    \/ playTrackDone
    \/ playTrackCatch
    \/ handlePlayComposition
    \/ handlePlayCompositionPlayed
    \/ handlePlayCompositionRecorded
    \/ handlePlayCompositionRejected

SpecPlay == InitPlay /\ [][NextPlay]_vars

\* C29: every play event the server has recorded is for a composition
\* with an audio file, was sent with a token, after playTrack had returned,
\* and for a playTrack that started the player on that track
C29_PlayRecordedOnlyIfPlayed ==
    \A i \in 1..Len(recorded) :
        /\ Truthy(recorded[i].audio)
        /\ Truthy(recorded[i].token)
        /\ recorded[i].pc = "awaitRecord"
        /\ recorded[i].started


(* ================== web MainApp: connectWebSocket ====================== *)
\* webSocket.close(): the closing handshake starts; the close event comes
\* later. Closing a socket that is closing or closed does nothing.
Closed(S, ws) ==
    IF S[ws] \in {"connecting", "open"} THEN [S EXCEPT ![ws] = "closing"]
    ELSE S

SocketFrame == UNCHANGED <<sessionVars, audioVars, clientVars, playCall, recorded>>

\* connectWebSocket(): if (webSocket) webSocket.close();
\* const ws = new WebSocket(url); ws.onopen = ...; ws.onclose = ...
connectWebSocket ==
    \E ws \in SocketIds :
        /\ sockets[ws] = "none"
        /\ \A w \in SocketIds : w < ws => sockets[w] # "none"
        /\ sockets' = [(IF webSocket # NoSocket THEN Closed(sockets, webSocket)
                        ELSE sockets) EXCEPT ![ws] = "connecting"]
        /\ reconnect' = IF webSocket # NoSocket /\ sockets[webSocket] = "open"
                        THEN [old |-> webSocket, new |-> ws]
                        ELSE NoReconnect
        /\ UNCHANGED webSocket
        /\ SocketFrame

\* the connection of ws is established: ws.onopen, setWebSocket(ws)
onopen ==
    \E ws \in SocketIds :
        /\ sockets[ws] = "connecting"
        /\ sockets' = [sockets EXCEPT ![ws] = "open"]
        /\ webSocket' = ws
        /\ UNCHANGED reconnect
        /\ SocketFrame

\* the connection of ws has ended (the closing handshake is done, the
\* server went away or the connection could not be made): ws.onclose,
\* setWebSocket(null)
onclose ==
    \E ws \in SocketIds :
        /\ sockets[ws] \in {"connecting", "open", "closing"}
        /\ sockets' = [sockets EXCEPT ![ws] = "closed"]
        /\ webSocket' = NoSocket
        /\ UNCHANGED reconnect
        /\ SocketFrame

InitSocket == Init /\ platform = "web" /\ stored = Null /\ profileShape = "bare"

NextSocket ==
    \/ connectWebSocket
    \/ onopen
    \/ onclose

SpecSocket == InitSocket /\ [][NextSocket]_vars

OpenSockets == {ws \in SocketIds : sockets[ws] = "open"}

\* C30: after connectWebSocket was invoked with a socket open, once the
\* old socket's close event and the new socket's open event have both been
\* delivered (and the new socket is still open), webSocket refers to the
\* new socket and no other socket is open
C30_ReconnectTracksNewSocket ==
    (/\ reconnect.new # NoSocket
     /\ sockets[reconnect.old] = "closed"
     /\ sockets[reconnect.new] = "open") =>
        /\ webSocket = reconnect.new
        /\ OpenSockets = {reconnect.new}

====
